---- MODULE Spec2Model ----
(***************************************************************************)
(* Reference resolution and field-view projection of the Swagger editor:   *)
(* SwaggerToJSONConverter (swagger-to-json.ts) normalises a raw document   *)
(* into an ID-addressed NormalizedAPI, FieldViewConverter                  *)
(* (field-view-converter.ts) projects it into the field view and the       *)
(* simplified view.                                                        *)
(*                                                                         *)
(* JavaScript values are modelled as follows.                              *)
(*  - A string the code takes apart (a reference, a name, an ID) is a      *)
(*    sequence of fragments; toLowerCase, the sanitising replace,          *)
(*    startsWith, replace and split('/').pop() act on the fragments.       *)
(*  - An object is a record whose DOMAIN is the set of keys present; the   *)
(*    key "$ref" is written ref.  A string standing where an object may    *)
(*    stand is [str |-> s], the boolean true is [bool |-> TRUE].           *)
(*  - A projected field type is tagged: Prim("string"), Map(f), Arr(x).    *)
(***************************************************************************)
EXTENDS Integers, Sequences, FiniteSets, TLC

VARIABLES
  swaggerContent, \* the document text handed to convert, or NoSpec
  result,        \* the ConversionResult of convert, or NoResult
  schemaRefs,    \* SwaggerToJSONConverter.schemaRefs   (name -> id)
  componentRefs, \* SwaggerToJSONConverter.componentRefs (raw ref -> id)
  idCounters,    \* SwaggerToJSONConverter.idCounters   (type -> n)
  normalized,    \* the NormalizedAPI handed to FieldViewConverter, or NoDoc
  simplified,    \* result of createSimplifiedFieldView, or NoView
  fieldView,     \* result of convertToFieldView, or NoView
  probe,         \* bookkeeping of the last projection (nesting of expansions)
  calls,         \* bookkeeping: the number of convert calls made on the instance
  maps,          \* the four Maps of the JSONToSwaggerConverter instance
  openapi,       \* the last call on that instance for `normalized` and what
                 \* it returned, or NoOutput
  apis,          \* backend: InMemoryAPIRepository.apis (ID -> definition)
  now,           \* backend: the clock read by time.Now()
  requests       \* backend: the requests made so far, each with its position

reverseVars == <<maps, openapi>>
backendVars == <<apis, now, requests>>
frontendVars == <<swaggerContent, result, schemaRefs, componentRefs, idCounters, normalized,
                  simplified, fieldView, probe, calls>>

vars == <<frontendVars, reverseVars, backendVars>>

(***************************************************************************)
(* Bounds                                                                  *)
(***************************************************************************)
\* Depth of nested extractFields calls the engine's call stack allows; a
\* deeper recursion ends in a RangeError.
StackLimit == 7
\* Nesting depth of the inline schema shapes that are enumerated.
MaxShapeDepth == 3
\* Number of convert calls made on one converter instance.
MaxCalls == 2
\* Number of dimensions of the inline arrays that are enumerated.
MaxArrayDepth == 4
\* Number of requests made to the backend, and the last reading of its clock.
MaxRequests == 2
MaxTime == 1

(***************************************************************************)
(* Strings                                                                 *)
(***************************************************************************)
SchemasPrefix   == "#/components/schemas/"
DefsPrefix      == "#/definitions/"
ParamsPrefix    == "#/components/parameters/"
Params2Prefix   == "#/parameters/"
SchemaIdPrefix  == "schema-"
ParamIdPrefix   == "param-"
ResponsesPrefix == "#/components/responses/"
BodiesPrefix    == "#/components/requestBodies/"

\* String.prototype.toLowerCase on one fragment.
LowerFrag(f) ==
  CASE f = "Category" -> "category"
    [] f = "Address"  -> "address"
    [] f = "Status"   -> "status"
    [] f = "Pet_Item" -> "pet_item"
    [] f = "Limit"    -> "limit"
    [] f = "Page_No"  -> "page_no"
    [] f = "Missing"  -> "missing"
    [] f = "Pet"      -> "pet"
    [] f = "PetList"  -> "petlist"
    [] f = "Level"    -> "level"
    [] f = "listPets" -> "listpets"
    [] f = "Pet-Item" -> "pet-item"
    [] f = "Owner"    -> "owner"
    [] f = "Bag"      -> "bag"
    [] f = "PetBody"  -> "petbody"
    [] f = "Pets"     -> "pets"
    [] f = "/pets/{petId}" -> "/pets/{petid}"
    [] OTHER -> f

\* replace(/[^a-z0-9]/g, '-') on one (already lower-cased) fragment.
DashFrag(f) ==
  CASE f = "pet_item" -> "pet-item"
    [] f = "page_no"  -> "page-no"
    [] f = "/pets"    -> "-pets"
    [] f = "/pets/{petid}" -> "-pets--petid-"
    [] f = SchemasPrefix -> "--components-schemas-"
    [] f = DefsPrefix    -> "--definitions-"
    [] f = ParamsPrefix  -> "--components-parameters-"
    [] f = Params2Prefix -> "--parameters-"
    [] f = ResponsesPrefix -> "--components-responses-"
    [] f = BodiesPrefix    -> "--components-requestbodies-"
    [] OTHER -> f

toLowerCase(s) == [i \in 1..Len(s) |-> LowerFrag(s[i])]

\* name.toLowerCase().replace(/[^a-z0-9]/g, '-')
sanitize(s) == [i \in 1..Len(s) |-> DashFrag(LowerFrag(s[i]))]

startsWith(s, prefix) == Len(s) > 0 /\ s[1] = prefix

\* s.replace(prefix, by): the first occurrence of the fragment is replaced.
RECURSIVE replace(_, _, _)
replace(s, prefix, by) ==
  IF s = <<>> THEN <<>>
  ELSE IF Head(s) = prefix THEN <<by>> \o Tail(s)
  ELSE <<Head(s)>> \o replace(Tail(s), prefix, by)

EndsWithSlash(f) ==
  f \in {SchemasPrefix, DefsPrefix, ParamsPrefix, Params2Prefix, ResponsesPrefix,
         BodiesPrefix}

\* ref.split('/').pop(): what follows the last "/".
RECURSIVE lastSegment(_)
lastSegment(s) ==
  IF \E i \in 1..Len(s) : EndsWithSlash(s[i])
  THEN lastSegment(Tail(s))
  ELSE s

Has(o, k) == k \in DOMAIN o
IsObject(v) == ~Has(v, "str") /\ ~Has(v, "bool")
Str(s) == [str |-> s]

\* The object o with member k set to v.
WithKey(o, k, v) == [x \in DOMAIN o \cup {k} |-> IF x = k THEN v ELSE o[x]]

(***************************************************************************)
(* Values                                                                  *)
(***************************************************************************)
NoSpec   == [none |-> "spec"]
NoResult == [none |-> "result"]
NoDoc    == [none |-> "doc"]
NoView   == [none |-> "view"]

Prim(n) == [t |-> "prim", v |-> n]
Map(f)  == [t |-> "map",  v |-> f]
Arr(x)  == [t |-> "arr",  v |-> x]
\* A RangeError (call stack exhausted) raised inside the projection.
Throw   == [t |-> "throw", v |-> "RangeError"]
EmptyMap == <<>>

CircularRef == Prim("circular-ref")

Max(a, b) == IF a >= b THEN a ELSE b

\* Array.prototype.find(x => x.id === id): the first match, or undefined.
RECURSIVE FindIndex(_, _, _)
FindIndex(seq, id, i) ==
  IF i > Len(seq) THEN 0
  ELSE IF seq[i].id = id THEN i
  ELSE FindIndex(seq, id, i + 1)

Found(seq, id) == FindIndex(seq, id, 1) # 0
Find(seq, id)  == seq[FindIndex(seq, id, 1)]

\* x.type || 'any'
TypeOrAny(o) == IF Has(o, "type") THEN o.type ELSE "any"

\* JavaScript truthiness of a value standing where a schema may stand.
Truthy(v) == ~(Has(v, "bool") /\ ~v.bool)

(***************************************************************************)
(* FieldViewConverter: reference lookups                                   *)
(***************************************************************************)
\* resolveSchemaRef: the schema ID a reference string is taken to name.
SchemaIdOfRef(ref) ==
  IF startsWith(ref, SchemasPrefix)
    THEN <<SchemaIdPrefix>> \o toLowerCase(replace(ref, SchemasPrefix, ""))
  ELSE IF startsWith(ref, SchemaIdPrefix) THEN ref
  ELSE <<SchemaIdPrefix>> \o toLowerCase(ref)

\* "" + x: the empty fragment left by replace(prefix, '') is dropped.
Compact(s) == SelectSeq(s, LAMBDA f : f # "")

resolveSchemaRefId(ref) == Compact(SchemaIdOfRef(ref))

\* resolveSchemaRef(ref, normalized) found a schema (returned non-null).
resolvesSchemaRef(ref, doc) == Found(doc.schemas, resolveSchemaRefId(ref))

resolveSchemaRef(ref, doc) == Find(doc.schemas, resolveSchemaRefId(ref))

\* resolveSchema(schemaRef, normalized)
resolveSchema(schemaRef, doc) ==
  IF IsObject(schemaRef)
  THEN IF Has(schemaRef, "ref")
       THEN LET refId == toLowerCase(replace(schemaRef.ref, SchemasPrefix, SchemaIdPrefix))
            IN IF Found(doc.schemas, refId) THEN Find(doc.schemas, refId)
               ELSE schemaRef
       ELSE schemaRef
  ELSE IF Has(schemaRef, "str")
  THEN IF Found(doc.schemas, schemaRef.str) THEN Find(doc.schemas, schemaRef.str)
       ELSE [type |-> "object"]
  ELSE schemaRef

\* resolveParameterRef(ref)
resolveParameterRef(ref) ==
  IF startsWith(ref, ParamsPrefix)
    THEN <<ParamIdPrefix>> \o sanitize(Compact(replace(ref, ParamsPrefix, "")))
  ELSE IF startsWith(ref, ParamIdPrefix) THEN ref
  ELSE <<ParamIdPrefix>> \o sanitize(ref)

(***************************************************************************)
(* FieldViewConverter.extractFields                                        *)
(*                                                                         *)
(* A projection result is [out, exp, dup]: out is the projected value (or  *)
(* Throw); exp and dup are bookkeeping that the code does not compute: exp *)
(* is the largest number of nested reference expansions below this point,  *)
(* dup tells that some path expanded a schema that it had expanded before. *)
(* path is the set of schema ids expanded by reference on the current path.*)
(***************************************************************************)
Leaf(v) == [out |-> v, exp |-> 0, dup |-> FALSE]

\* [ x ] / [{ ...x }]: a thrown error passes through.
InArray(r) == [r EXCEPT !.out = IF r.out.t = "throw" THEN Throw ELSE Arr(r.out)]

\* { '[key: string]': x }
InKeyMap(r) ==
  [r EXCEPT !.out = IF r.out.t = "throw" THEN Throw
                    ELSE Map([k \in {"[key: string]"} |-> r.out])]

\* A cycle guard that never recognises a reference.
VisitedHas_never(visitedRefs, ref) == FALSE

\* visitedRefs.has(ref)
VisitedHas(visitedRefs, ref) == ref \in visitedRefs

\* new Set(visitedRefs).add(ref)
VisitedAdd(visitedRefs, ref) == visitedRefs \cup {ref}

RECURSIVE extractFields(_, _, _, _, _)
RECURSIVE FieldOf(_, _, _, _, _)

\* The reference expansion: extractFields(schema.properties, normalized, v)
\* for a schema reached through a reference.
Expanded(r, again) == [out |-> r.out, exp |-> r.exp + 1, dup |-> r.dup \/ again]

Expand(schema, doc, v, path, depth) ==
  Expanded(extractFields(schema.properties, doc, v, path \cup {schema.id}, depth + 1),
           schema.id \in path)

\* A $ref branch that gives up where the reference has no target.
RefField_abort(fieldSchema, doc, visitedRefs, path, depth) ==
  IF ~resolvesSchemaRef(fieldSchema.ref, doc) THEN Leaf(Throw)
  ELSE IF Has(resolveSchemaRef(fieldSchema.ref, doc), "properties")
    THEN Expand(resolveSchemaRef(fieldSchema.ref, doc), doc,
                VisitedAdd(visitedRefs, fieldSchema.ref), path, depth)
  ELSE Leaf(Prim(TypeOrAny(resolveSchemaRef(fieldSchema.ref, doc))))

\* Lines 309-364: the property is a $ref.
RefField(fieldSchema, doc, visitedRefs, path, depth) ==
  IF VisitedHas(visitedRefs, fieldSchema.ref) THEN Leaf(CircularRef)
  ELSE
   LET newVisitedRefs == VisitedAdd(visitedRefs, fieldSchema.ref) IN
   IF ~resolvesSchemaRef(fieldSchema.ref, doc) THEN Leaf(Prim("any"))
   ELSE
    LET resolved == resolveSchemaRef(fieldSchema.ref, doc) IN
    IF Has(resolved, "properties")
      THEN Expand(resolved, doc, newVisitedRefs, path, depth)
    ELSE IF Has(resolved, "type") /\ resolved.type = "array" /\ Has(resolved, "items")
      THEN IF Has(resolved.items, "ref")
           THEN IF VisitedHas(newVisitedRefs, resolved.items.ref)
                THEN Leaf(Arr(CircularRef))
                ELSE
                 LET itemVisitedRefs == VisitedAdd(newVisitedRefs, resolved.items.ref) IN
                 IF ~resolvesSchemaRef(resolved.items.ref, doc)
                   THEN Leaf(Arr(Prim("any")))
                 ELSE
                  LET itemResolved == resolveSchemaRef(resolved.items.ref, doc) IN
                  IF Has(itemResolved, "properties")
                    THEN InArray(Expand(itemResolved, doc, itemVisitedRefs, path, depth))
                    ELSE Leaf(Arr(Prim(TypeOrAny(itemResolved))))
           ELSE IF Has(resolved.items, "properties")
           THEN InArray(extractFields(resolved.items.properties, doc,
                                      newVisitedRefs, path, depth + 1))
           ELSE Leaf(Arr(Prim(TypeOrAny(resolved.items))))
    ELSE IF Has(resolved, "enum") THEN Leaf(Prim("string"))
    ELSE Leaf(Prim(TypeOrAny(resolved)))

\* Lines 365-392: the property is an inline object.
ObjectField(fieldSchema, doc, visitedRefs, path, depth) ==
  IF Has(fieldSchema, "properties")
    THEN extractFields(fieldSchema.properties, doc, visitedRefs, path, depth + 1)
  ELSE IF Has(fieldSchema, "additionalProperties")
          /\ Truthy(fieldSchema.additionalProperties)
    THEN LET ap == fieldSchema.additionalProperties IN
         IF IsObject(ap)
         THEN IF Has(ap, "type") /\ ap.type = "object" /\ Has(ap, "properties")
                THEN InKeyMap(extractFields(ap.properties, doc, visitedRefs, path, depth + 1))
              ELSE IF Has(ap, "type") /\ ap.type = "array" /\ Has(ap, "items")
                THEN InKeyMap(Leaf(Arr(Prim(TypeOrAny(ap.items)))))
              ELSE InKeyMap(Leaf(Prim(TypeOrAny(ap))))
         ELSE InKeyMap(Leaf(Prim("any")))
  ELSE Leaf(Prim("object"))

\* An array branch that knows two dimensions only: what is nested in the
\* second one is named by its type.
ArrayField_2d(fieldSchema, doc, visitedRefs, path, depth) ==
  IF ~Has(fieldSchema, "items") THEN Leaf(Arr(Prim("any")))
  ELSE
   LET items == fieldSchema.items IN
   IF Has(items, "ref")
     THEN IF VisitedHas(visitedRefs, items.ref) THEN Leaf(Arr(CircularRef))
          ELSE
           LET newVisitedRefs == VisitedAdd(visitedRefs, items.ref) IN
           IF resolvesSchemaRef(items.ref, doc)
           THEN LET itemResolved == resolveSchemaRef(items.ref, doc) IN
                IF Has(itemResolved, "properties")
                  THEN InArray(Expand(itemResolved, doc, newVisitedRefs, path, depth))
                  ELSE Leaf(Arr(Prim(TypeOrAny(itemResolved))))
           ELSE Leaf(Arr(Prim("any")))
   ELSE IF Has(items, "properties")
     THEN InArray(extractFields(items.properties, doc, visitedRefs, path, depth + 1))
   ELSE IF Has(items, "type") /\ items.type = "array"
     THEN IF Has(items, "items")
          THEN Leaf(Arr(Arr(Prim(TypeOrAny(items.items)))))
          ELSE Leaf(Arr(Arr(Prim("any"))))
   ELSE Leaf(Arr(Prim(TypeOrAny(items))))

\* Lines 393-450: the property is an inline array.
ArrayField(fieldSchema, doc, visitedRefs, path, depth) ==
  IF ~Has(fieldSchema, "items") THEN Leaf(Arr(Prim("any")))
  ELSE
   LET items == fieldSchema.items IN
   IF Has(items, "ref")
     THEN IF VisitedHas(visitedRefs, items.ref) THEN Leaf(Arr(CircularRef))
          ELSE
           LET newVisitedRefs == VisitedAdd(visitedRefs, items.ref) IN
           IF resolvesSchemaRef(items.ref, doc)
           THEN LET itemResolved == resolveSchemaRef(items.ref, doc) IN
                IF Has(itemResolved, "properties")
                  THEN InArray(Expand(itemResolved, doc, newVisitedRefs, path, depth))
                  ELSE Leaf(Arr(Prim(TypeOrAny(itemResolved))))
           ELSE Leaf(Arr(Prim("any")))
   ELSE IF Has(items, "properties")
     THEN InArray(extractFields(items.properties, doc, visitedRefs, path, depth + 1))
   ELSE IF Has(items, "type") /\ items.type = "array"
     THEN IF Has(items, "items")
          THEN IF Has(items.items, "type") /\ items.items.type = "array"
               THEN IF Has(items.items, "items")
                    THEN Leaf(Arr(Arr(Arr(Prim(TypeOrAny(items.items.items))))))
                    ELSE Leaf(Arr(Arr(Arr(Prim("any")))))
               ELSE IF Has(items.items, "type") /\ items.items.type = "object"
                       /\ Has(items.items, "properties")
               THEN InArray(InArray(extractFields(items.items.properties, doc,
                                                  visitedRefs, path, depth + 1)))
               ELSE Leaf(Arr(Arr(Prim(TypeOrAny(items.items)))))
          ELSE Leaf(Arr(Arr(Prim("any"))))
   ELSE Leaf(Arr(Prim(TypeOrAny(items))))

\* The body of the forEach callback of extractFields: one property.
FieldOf(fieldSchema, doc, visitedRefs, path, depth) ==
  IF Has(fieldSchema, "ref")
    THEN RefField(fieldSchema, doc, visitedRefs, path, depth)
  ELSE IF Has(fieldSchema, "type") /\ fieldSchema.type = "object"
    THEN ObjectField(fieldSchema, doc, visitedRefs, path, depth)
  ELSE IF Has(fieldSchema, "type") /\ fieldSchema.type = "array"
    THEN ArrayField(fieldSchema, doc, visitedRefs, path, depth)
  ELSE Leaf(Prim(TypeOrAny(fieldSchema)))

\* fields[fieldName] = field, next to the fields assigned so far.
WithField(rest, fieldName, field) ==
  [out |-> IF field.out.t = "throw" \/ rest.out.t = "throw" THEN Throw
           ELSE Map(WithKey(rest.out.v, fieldName, field.out)),
   exp |-> Max(field.exp, rest.exp),
   dup |-> field.dup \/ rest.dup]

\* The entry the forEach loop of extractFields visits among names.
FieldName(names) == CHOOSE n \in names : TRUE

\* The forEach loop of extractFields over the entries named in names.
RECURSIVE FieldsOf(_, _, _, _, _, _)
FieldsOf(names, properties, doc, visitedRefs, path, depth) ==
  IF names = {} THEN Leaf(Map(EmptyMap))
  ELSE WithField(
         FieldsOf(names \ {FieldName(names)}, properties, doc, visitedRefs, path, depth),
         FieldName(names),
         FieldOf(properties[FieldName(names)], doc, visitedRefs, path, depth))

\* extractFields(properties, normalized, visitedRefs); depth counts the
\* nested calls, the call that exceeds StackLimit raises the RangeError.
extractFields(properties, doc, visitedRefs, path, depth) ==
  IF depth > StackLimit THEN Leaf(Throw)
  ELSE FieldsOf(DOMAIN properties, properties, doc, visitedRefs, path, depth)

(***************************************************************************)
(* FieldViewConverter.createSimplifiedFieldView                            *)
(***************************************************************************)
JSON == "application/json"

\* param.schema?.type || 'string'
ParamType(param) ==
  IF Has(param, "schema") /\ Has(param.schema, "type") THEN param.schema.type
  ELSE "string"

\* Lines 227-237: the parameters map of one endpoint, built in list order.
RECURSIVE SimplifiedParameters(_, _, _)
SimplifiedParameters(paramIds, doc, acc) ==
  IF paramIds = <<>> THEN acc
  ELSE
   LET resolvedParamId == resolveParameterRef(Head(paramIds))
       next == IF Found(doc.parameters, resolvedParamId)
               THEN LET param == Find(doc.parameters, resolvedParamId)
                    IN [n \in DOMAIN acc \cup {param.name} |->
                          IF n = param.name THEN ParamType(param) ELSE acc[n]]
               ELSE acc
   IN SimplifiedParameters(Tail(paramIds), doc, next)

\* b.id.includes(sub), for the fragments request body ids are made of.
FragIncludes(f, sub) ==
  \/ f = sub
  \/ sub = "body" /\ f \in {"request-body-", "-body"}

includes(s, sub) == \E i \in 1..Len(s) : FragIncludes(s[i], sub)

\* method.toLowerCase()
LowerMethod(m) ==
  CASE m = "GET" -> "get" [] m = "POST" -> "post" [] m = "PUT" -> "put"
    [] m = "DELETE" -> "delete" [] m = "PATCH" -> "patch"
    [] m = "OPTIONS" -> "options" [] m = "HEAD" -> "head" [] OTHER -> m

RECURSIVE FirstBodyLike(_, _, _)
FirstBodyLike(bodies, method, i) ==
  IF i > Len(bodies) THEN 0
  ELSE IF includes(bodies[i].id, "body") \/ includes(bodies[i].id, LowerMethod(method))
       THEN i
  ELSE FirstBodyLike(bodies, method, i + 1)

\* Lines 241-247: the request body used for an endpoint (0: none).
RequestBodyIndex(endpoint, doc) ==
  LET exact == FindIndex(doc.requestBodies, endpoint.requestBody, 1) IN
  IF exact # 0 THEN exact
  ELSE IF Len(doc.requestBodies) > 0
       THEN LET like == FirstBodyLike(doc.requestBodies, endpoint.method, 1)
            IN IF like # 0 THEN like ELSE 1
  ELSE 0

HasJsonSchema(content) == Has(content, JSON) /\ Has(content[JSON], "schema")

\* Lines 240-258: request_fields.
RequestFields(endpoint, doc) ==
  IF ~Has(endpoint, "requestBody") THEN Leaf(Map(EmptyMap))
  ELSE
   LET i == RequestBodyIndex(endpoint, doc) IN
   IF i = 0 THEN Leaf(Map(EmptyMap))
   ELSE
    LET body == doc.requestBodies[i] IN
    IF ~HasJsonSchema(body.content) THEN Leaf(Map(EmptyMap))
    ELSE
     LET schema == resolveSchema(body.content[JSON].schema, doc) IN
     IF Has(schema, "properties")
       THEN extractFields(schema.properties, doc, {}, {}, 1)
       ELSE Leaf(Map(EmptyMap))

\* Line 272: Object.keys(responsesObj).find(code === '200' || code === '201');
\* integer-like keys are enumerated in ascending order.
SuccessCode(responses) ==
  IF "200" \in DOMAIN responses THEN "200"
  ELSE IF "201" \in DOMAIN responses THEN "201"
  ELSE "none"

\* Lines 261-299: response_fields.
ResponseFields(endpoint, doc) ==
  LET successCode == IF Has(endpoint, "responses")
                     THEN SuccessCode(endpoint.responses) ELSE "none" IN
  IF successCode = "none" THEN Leaf(Map(EmptyMap))
  ELSE
   LET responseId == endpoint.responses[successCode] IN
   IF ~Found(doc.responses, responseId) THEN Leaf(Map(EmptyMap))
   ELSE
    LET response == Find(doc.responses, responseId) IN
    IF ~(Has(response, "content") /\ HasJsonSchema(response.content))
      THEN Leaf(Map(EmptyMap))
    ELSE
     LET schema == resolveSchema(response.content[JSON].schema, doc) IN
     IF Has(schema, "properties")
       THEN extractFields(schema.properties, doc, {}, {}, 1)
     ELSE IF Has(schema, "type") /\ schema.type = "array" /\ Has(schema, "items")
       THEN LET itemSchema == resolveSchema(schema.items, doc) IN
            IF Has(itemSchema, "properties")
              THEN InArray(extractFields(itemSchema.properties, doc, {}, {}, 1))
              ELSE Leaf(Arr(Prim(TypeOrAny(itemSchema))))
     ELSE Leaf(Map(EmptyMap))

\* The entry of one endpoint, with the bookkeeping of its two projections.
EndpointEntry(parameters, req, res) ==
  [threw |-> req.out.t = "throw" \/ res.out.t = "throw",
   exp   |-> Max(req.exp, res.exp),
   dup   |-> req.dup \/ res.dup,
   entry |-> [parameters      |-> parameters,
              request_fields  |-> req.out,
              response_fields |-> res.out]]

SimplifiedEndpoint(endpoint, doc) ==
  EndpointEntry(IF Has(endpoint, "parameters")
                THEN SimplifiedParameters(endpoint.parameters, doc, EmptyMap)
                ELSE EmptyMap,
                RequestFields(endpoint, doc),
                ResponseFields(endpoint, doc))

\* `${endpoint.method} ${endpoint.path}`
EndpointKey(endpoint) == <<endpoint.method, endpoint.path>>

\* simplified.endpoints[key] = e.entry, next to the entries made so far.
WithEndpoint(acc, key, e) ==
  [threw     |-> acc.threw \/ e.threw,
   exp       |-> Max(acc.exp, e.exp),
   dup       |-> acc.dup \/ e.dup,
   endpoints |-> [k \in DOMAIN acc.endpoints \cup {key} |->
                    IF k = key THEN e.entry ELSE acc.endpoints[k]]]

RECURSIVE SimplifiedEndpoints(_, _, _)
SimplifiedEndpoints(endpoints, doc, acc) ==
  IF endpoints = <<>> THEN acc
  ELSE SimplifiedEndpoints(Tail(endpoints), doc,
         WithEndpoint(acc, EndpointKey(Head(endpoints)),
                      SimplifiedEndpoint(Head(endpoints), doc)))

\* createSimplifiedFieldView(normalized), with the bookkeeping.
SimplifiedRun(doc) ==
  SimplifiedEndpoints(doc.endpoints, doc,
    [threw |-> FALSE, exp |-> 0, dup |-> FALSE, endpoints |-> EmptyMap])

ThrownView == [threw |-> "RangeError"]

\* (normalized.metadata as any).name || normalized.metadata.title || fallback
TitleOr(doc, fallback) ==
  IF Has(doc.metadata, "name") THEN doc.metadata.name
  ELSE IF Has(doc.metadata, "title") THEN doc.metadata.title
  ELSE fallback

\* What createSimplifiedFieldView returns (or raises) for a run.
ViewOfRun(run, doc) ==
  IF run.threw THEN ThrownView
  ELSE [api |-> <<TitleOr(doc, <<"API">>), doc.metadata.version>>,
        endpoints |-> run.endpoints]

createSimplifiedFieldView(doc) == ViewOfRun(SimplifiedRun(doc), doc)

(***************************************************************************)
(* FieldViewConverter.convertToFieldView                                   *)
(* (descriptions, examples, tags and headers are passed through unchanged  *)
(* by the code and are left out of the documents)                          *)
(***************************************************************************)
\* Lines 116-130: operation.parameters, built in list order.
RECURSIVE FieldViewParameters(_, _, _)
\* A loop that stores an entry under the reference when the lookup fails.
FieldViewParameters_placeholder(paramIds, doc, acc) ==
  IF paramIds = <<>> THEN acc
  ELSE
   LET param == Head(paramIds)
       key   == IF Found(doc.parameters, param)
                THEN Find(doc.parameters, param).name ELSE param
       entry == IF Found(doc.parameters, param)
                THEN [location |-> Find(doc.parameters, param).in,
                      type     |-> ParamType(Find(doc.parameters, param))]
                ELSE [location |-> "unresolved", type |-> "unresolved"]
   IN FieldViewParameters(Tail(paramIds), doc,
        [n \in DOMAIN acc \cup {key} |-> IF n = key THEN entry ELSE acc[n]])

FieldViewParameters(paramIds, doc, acc) ==
  IF paramIds = <<>> THEN acc
  ELSE
   LET param == Head(paramIds)
       next == IF Found(doc.parameters, param)
               THEN LET paramData == Find(doc.parameters, param)
                    IN [n \in DOMAIN acc \cup {paramData.name} |->
                          IF n = paramData.name
                          THEN [location |-> paramData.in, type |-> ParamType(paramData)]
                          ELSE acc[n]]
               ELSE acc
   IN FieldViewParameters(Tail(paramIds), doc, next)

\* content_types built from a content map (lines 141-146 and 180-187).
ContentTypes(content, doc) ==
  [ct \in DOMAIN content |->
     IF Has(content[ct], "schema")
     THEN [schema |-> resolveSchema(content[ct].schema, doc)]
     ELSE [example |-> "undefined"]]

\* Lines 150-190: operation.responses.
FieldViewResponses(endpoint, doc) ==
  IF ~Has(endpoint, "responses") THEN EmptyMap
  ELSE
   LET codes == {c \in DOMAIN endpoint.responses :
                   Found(doc.responses, endpoint.responses[c])}
   IN [c \in codes |->
         LET responseData == Find(doc.responses, endpoint.responses[c])
         IN [content_types |-> IF Has(responseData, "content")
                               THEN ContentTypes(responseData.content, doc)
                               ELSE EmptyMap]]

\* Lines 106-148: the operation object of one endpoint.
FieldViewOperation(endpoint, doc) ==
  LET base == [parameters |-> IF Has(endpoint, "parameters")
                              THEN FieldViewParameters(endpoint.parameters, doc, EmptyMap)
                              ELSE EmptyMap,
               responses  |-> FieldViewResponses(endpoint, doc)]
  IN IF Has(endpoint, "requestBody") /\ Found(doc.requestBodies, endpoint.requestBody)
     THEN LET bodyData == Find(doc.requestBodies, endpoint.requestBody)
          IN [parameters   |-> base.parameters,
              responses    |-> base.responses,
              request_body |-> [content_types |-> ContentTypes(bodyData.content, doc)]]
     ELSE base

\* Lines 101-193: fieldView.paths[path][method.toLowerCase()] = operation.
RECURSIVE FieldViewPaths(_, _, _)
FieldViewPaths(endpoints, doc, acc) ==
  IF endpoints = <<>> THEN acc
  ELSE
   LET endpoint == Head(endpoints)
       method == LowerMethod(endpoint.method)
       old == IF endpoint.path \in DOMAIN acc THEN acc[endpoint.path] ELSE EmptyMap
       item == [m \in DOMAIN old \cup {method} |->
                  IF m = method THEN FieldViewOperation(endpoint, doc) ELSE old[m]]
   IN FieldViewPaths(Tail(endpoints), doc,
        [q \in DOMAIN acc \cup {endpoint.path} |->
           IF q = endpoint.path THEN item ELSE acc[q]])

\* Lines 196-204: fieldView.schemas[schema.id.replace('schema-', '')].
RECURSIVE FieldViewSchemas(_, _)
FieldViewSchemas(schemas, acc) ==
  IF schemas = <<>> THEN acc
  ELSE
   LET schema == Head(schemas)
       schemaName == Compact(replace(schema.id, SchemaIdPrefix, ""))
       entry == IF Has(schema, "properties")
                THEN [type |-> schema.type, properties |-> schema.properties]
                ELSE [type |-> schema.type]
   IN FieldViewSchemas(Tail(schemas),
        [n \in DOMAIN acc \cup {schemaName} |->
           IF n = schemaName THEN entry ELSE acc[n]])

convertToFieldView(doc) ==
  [api_info |-> [title |-> TitleOr(doc, <<>>), version |-> doc.metadata.version],
   paths    |-> FieldViewPaths(doc.endpoints, doc, EmptyMap),
   schemas  |-> FieldViewSchemas(doc.schemas, EmptyMap)]

(***************************************************************************)
(* SwaggerToJSONConverter                                                  *)
(*                                                                         *)
(* A raw document keeps the insertion order of its maps: paths is a        *)
(* sequence of [path, item], components.schemas / parameters / responses / *)
(* requestBodies are sequences of [name, value].  The responses of one     *)
(* operation are a function of the status code.                            *)
(***************************************************************************)
\* generateId(type, name) for a name that is present: `${type}-${sanitized}`.
generateId(type, name) == <<type>> \o sanitize(name)

\* The map m with key k set to v (Map.prototype.set).
MapSet(m, k, v) == [x \in DOMAIN m \cup {k} |-> IF x = k THEN v ELSE m[x]]

Section(o, k) == IF Has(o, k) THEN o[k] ELSE <<>>

\* getSchemaMap(spec)
getSchemaMap(s) ==
  IF Has(s, "components") /\ Has(s.components, "schemas") THEN s.components.schemas
  ELSE IF Has(s, "definitions") THEN s.definitions
  ELSE <<>>

\* buildReferenceMap(spec): the two maps after registering entries 1..i.
RECURSIVE buildReferenceMap(_, _)
buildReferenceMap(schemas, refs) ==
  IF schemas = <<>> THEN refs
  ELSE
   LET name == Head(schemas).name
       schemaId == generateId("schema-", name)
   IN buildReferenceMap(Tail(schemas),
        [schemaRefs    |-> MapSet(refs.schemaRefs, name, schemaId),
         componentRefs |-> MapSet(MapSet(refs.componentRefs,
                                         <<SchemasPrefix>> \o name, schemaId),
                                  <<DefsPrefix>> \o name, schemaId)])

\* resolveRef(ref) against the maps as they are at the time of the call.
resolveRef(ref, refs) ==
  IF ref \in DOMAIN refs.componentRefs THEN refs.componentRefs[ref]
  ELSE LET schemaName == lastSegment(ref) IN
       IF schemaName # <<>> /\ schemaName \in DOMAIN refs.schemaRefs
       THEN refs.schemaRefs[schemaName]
       ELSE ref

\* normalizeProperties(properties)
normalizeProperties(properties, refs) ==
  [key \in DOMAIN properties |->
     IF Has(properties[key], "ref")
     THEN [ref |-> resolveRef(properties[key].ref, refs)]
     ELSE properties[key]]

\* normalizeItems(items)
normalizeItems(items, refs) ==
  IF Has(items, "ref") THEN Str(resolveRef(items.ref, refs)) ELSE items

\* One entry of extractSchemas (lines 191-210); undefined members are
\* left out of the record.
SchemaEntity(name, schema, refs) ==
  LET base == [id   |-> generateId("schema-", name),
               name |-> name,
               type |-> IF Has(schema, "type") THEN schema.type ELSE "object"]
      p == IF Has(schema, "properties")
           THEN WithKey(base, "properties", normalizeProperties(schema.properties, refs))
           ELSE base
      i == IF Has(schema, "items")
           THEN WithKey(p, "items", normalizeItems(schema.items, refs))
           ELSE p
  IN IF Has(schema, "enum") THEN WithKey(i, "enum", schema.enum) ELSE i

extractSchemas(s, refs) ==
  LET schemaMap == getSchemaMap(s)
  IN [i \in 1..Len(schemaMap) |->
        SchemaEntity(schemaMap[i].name, schemaMap[i].schema, refs)]

HttpMethods == <<"get", "post", "put", "delete", "patch", "options", "head">>

\* method.toUpperCase()
UpperMethod(m) ==
  CASE m = "get" -> "GET" [] m = "post" -> "POST" [] m = "put" -> "PUT"
    [] m = "delete" -> "DELETE" [] m = "patch" -> "PATCH"
    [] m = "options" -> "OPTIONS" [] m = "head" -> "HEAD"

\* extractOperationParameters(operation, pathParameters)
RECURSIVE ParamIds(_, _)
ParamIds(allParams, refs) ==
  IF allParams = <<>> THEN <<>>
  ELSE LET param == Head(allParams) IN
       (IF Has(param, "ref")
        THEN <<resolveRef(param.ref, refs)>>
        ELSE <<generateId("param-", param.name)>>)
       \o ParamIds(Tail(allParams), refs)

extractOperationParameters(operation, pathItem, refs) ==
  ParamIds(Section(pathItem, "parameters") \o Section(operation, "parameters"), refs)

\* operation.operationId || fallback
OperationIdOr(operation, fallback) ==
  IF Has(operation, "operationId") THEN operation.operationId ELSE fallback

\* extractOperationResponses(operation)
extractOperationResponses(operation, refs) ==
  LET responses == Section(operation, "responses")
  IN [code \in DOMAIN responses |->
        IF Has(responses[code], "ref")
        THEN resolveRef(responses[code].ref, refs)
        ELSE generateId("response-", OperationIdOr(operation, <<"op">>) \o <<"-", code>>)]

\* One endpoint of extractEndpoints (lines 113-133); summary, description,
\* tags and security are undefined for the documents enumerated here.
EndpointEntity(path, method, pathItem, refs) ==
  LET operation == pathItem[method]
      base == [id |-> generateId("endpoint-",
                        OperationIdOr(operation, <<method, "-", path>>)),
               path       |-> path,
               method     |-> UpperMethod(method),
               parameters |-> extractOperationParameters(operation, pathItem, refs),
               responses  |-> extractOperationResponses(operation, refs)]
      named == IF Has(operation, "operationId")
               THEN WithKey(base, "operationId", operation.operationId) ELSE base
  IN IF ~Has(operation, "requestBody") THEN named
     ELSE IF Has(operation.requestBody, "ref")
     THEN WithKey(named, "requestBody", resolveRef(operation.requestBody.ref, refs))
     ELSE WithKey(named, "requestBody",
                  generateId("request-body-", OperationIdOr(operation, <<"body">>)))

\* The operations of a document in the order the code visits them:
\* paths in document order, methods in the order of the given list.
RECURSIVE Operations(_, _)
Operations(paths, methods) ==
  IF paths = <<>> THEN <<>>
  ELSE LET p == Head(paths)
           here == SelectSeq(methods, LAMBDA m : Has(p.item, m))
       IN [i \in 1..Len(here) |-> [path |-> p.path, method |-> here[i], item |-> p.item]]
          \o Operations(Tail(paths), methods)

extractEndpoints(s, refs) ==
  LET ops == Operations(Section(s, "paths"), HttpMethods)
  IN [i \in 1..Len(ops) |-> EndpointEntity(ops[i].path, ops[i].method, ops[i].item, refs)]

\* The inline (non-$ref) parameters of a list, as Parameter entities.
InlineParams(params) ==
  LET inline == SelectSeq(params, LAMBDA q : ~Has(q, "ref"))
  IN [i \in 1..Len(inline) |->
        [id     |-> generateId("param-", inline[i].name),
         name   |-> inline[i].name,
         in     |-> inline[i].in,
         schema |-> IF Has(inline[i], "schema") THEN inline[i].schema ELSE inline[i],
         component |-> <<>>]]

OLD_METHODS == <<"get", "post", "put", "delete", "patch">>

RECURSIVE FlatParams(_)
FlatParams(ops) ==
  IF ops = <<>> THEN <<>>
  ELSE InlineParams(Section(Head(ops).item[Head(ops).method], "parameters"))
       \o FlatParams(Tail(ops))

\* Lines 256-302: the inline parameters in the order extractParameters
\* meets them: per path, the path-level list, then the operations'.
RECURSIVE PathParamCandidates(_)
PathParamCandidates(paths) ==
  IF paths = <<>> THEN <<>>
  ELSE InlineParams(Section(Head(paths).item, "parameters"))
       \o FlatParams(Operations(<<Head(paths)>>, OLD_METHODS))
       \o PathParamCandidates(Tail(paths))

\* spec.components?.parameters || spec.parameters || {}
ComponentParams(s) ==
  IF Has(s, "components") /\ Has(s.components, "parameters") THEN s.components.parameters
  ELSE Section(s, "parameters")

\* Lines 305-321: the component parameters as candidates.
ComponentParamCandidates(s) ==
  LET cs == ComponentParams(s)
  IN [i \in 1..Len(cs) |->
        [id     |-> generateId("param-", cs[i].name),
         name   |-> IF Has(cs[i].param, "name") THEN cs[i].param.name ELSE cs[i].name,
         in     |-> cs[i].param.in,
         schema |-> IF Has(cs[i].param, "schema") THEN cs[i].param.schema ELSE cs[i].param,
         component |-> <<cs[i].name>>]]

\* The `seen` filter: a candidate is kept when no earlier candidate has its
\* `${name}-${in}` key.
KeptParams(cands) ==
  {i \in 1..Len(cands) :
     \A j \in 1..(i - 1) : ~(cands[j].name = cands[i].name /\ cands[j].in = cands[i].in)}

RECURSIVE KeepSeq(_, _, _)
KeepSeq(cands, kept, i) ==
  IF i > Len(cands) THEN <<>>
  ELSE (IF i \in kept THEN <<cands[i]>> ELSE <<>>) \o KeepSeq(cands, kept, i + 1)

ParamCandidates(s) ==
  PathParamCandidates(Section(s, "paths")) \o ComponentParamCandidates(s)

ParamEntity(c) == [id |-> c.id, name |-> c.name, in |-> c.in, schema |-> c.schema]

\* extractParameters(spec): the Parameter list.
extractParameters(s) ==
  LET cands == ParamCandidates(s)
      kept  == KeepSeq(cands, KeptParams(cands), 1)
  IN [i \in 1..Len(kept) |-> ParamEntity(kept[i])]

\* componentRefs after extractParameters (line 319).
RECURSIVE RegisterParams(_, _)
RegisterParams(kept, cr) ==
  IF kept = <<>> THEN cr
  ELSE RegisterParams(Tail(kept),
         IF Head(kept).component = <<>> THEN cr
         ELSE MapSet(cr,
                     <<ParamsPrefix>> \o Head(kept).component[1], Head(kept).id))

RefsAfterParameters(s, refs) ==
  LET cands == ParamCandidates(s)
  IN [refs EXCEPT !.componentRefs =
        RegisterParams(KeepSeq(cands, KeptParams(cands), 1), refs.componentRefs)]

\* normalizeContent(content); Absent stands for undefined.
Absent == [undefined |-> TRUE]

MediaType(mediaTypeObj, refs) ==
  IF ~IsObject(mediaTypeObj) \/ ~Has(mediaTypeObj, "schema") THEN [example |-> "undefined"]
  ELSE IF Has(mediaTypeObj.schema, "ref")
       THEN [schema |-> Str(resolveRef(mediaTypeObj.schema.ref, refs))]
       ELSE [schema |-> mediaTypeObj.schema]

normalizeContent(content, refs) ==
  IF content = Absent THEN Absent
  ELSE IF Has(content, "type") THEN [c \in {JSON} |-> [schema |-> content]]
  ELSE [mediaType \in DOMAIN content |->
          MediaType(IF mediaType = "ref" THEN Str(content.ref) ELSE content[mediaType], refs)]

\* response.description || 'Response'
DescriptionOf(response) ==
  IF Has(response, "description") THEN response.description ELSE "Response"

\* response.content || response.schema
ResponseContent(response) ==
  IF Has(response, "content") THEN response.content
  ELSE IF Has(response, "schema") THEN response.schema
  ELSE Absent

OrEmpty(c) == IF c = Absent THEN EmptyMap ELSE c

\* The status codes in the order Object.entries enumerates them:
\* integer-like keys ascending, then the other keys.
CodeOrder == <<"200", "201", "202", "404", "default">>

\* Lines 331-353: the inline responses of the operations, in visiting order.
RECURSIVE OperationResponses(_, _)
OperationResponses(ops, refs) ==
  IF ops = <<>> THEN <<>>
  ELSE
   LET operation == Head(ops).item[Head(ops).method]
       responses == Section(operation, "responses")
       codes == SelectSeq(CodeOrder,
                  LAMBDA c : c \in DOMAIN responses /\ ~Has(responses[c], "ref"))
       keyOf(c) == OperationIdOr(operation, <<Head(ops).method>>) \o <<"-", c>>
   IN [i \in 1..Len(codes) |->
         [key     |-> keyOf(codes[i]),
          id      |-> generateId("response-", keyOf(codes[i])),
          description |-> DescriptionOf(responses[codes[i]]),
          content |-> OrEmpty(normalizeContent(ResponseContent(responses[codes[i]]), refs))]]
      \o OperationResponses(Tail(ops), refs)

\* The `seen` filter on the synthesized key.
RECURSIVE KeepFirstByKey(_, _)
KeepFirstByKey(cands, seen) ==
  IF cands = <<>> THEN <<>>
  ELSE IF Head(cands).key \in seen THEN KeepFirstByKey(Tail(cands), seen)
  ELSE <<Head(cands)>> \o KeepFirstByKey(Tail(cands), seen \cup {Head(cands).key})

\* spec.components?.responses || spec.responses || {}
ComponentResponses(s) ==
  IF Has(s, "components") /\ Has(s.components, "responses") THEN s.components.responses
  ELSE Section(s, "responses")

\* extractResponses(spec)
extractResponses(s, refs) ==
  LET inline == KeepFirstByKey(
                  OperationResponses(Operations(Section(s, "paths"), OLD_METHODS), refs), {})
      cs == ComponentResponses(s)
  IN [i \in 1..Len(inline) |->
        [id |-> inline[i].id, description |-> inline[i].description,
         content |-> inline[i].content]]
     \o [i \in 1..Len(cs) |->
           LET c == normalizeContent(ResponseContent(cs[i].response), refs)
               e == [id          |-> generateId("response-", cs[i].name),
                     description |-> DescriptionOf(cs[i].response)]
           IN IF c = Absent THEN e ELSE WithKey(e, "content", c)]

\* componentRefs after extractResponses (line 365).
RECURSIVE RegisterComponents(_, _, _, _)
RegisterComponents(cs, prefix, type, cr) ==
  IF cs = <<>> THEN cr
  ELSE RegisterComponents(Tail(cs), prefix, type,
         MapSet(cr, <<prefix>> \o Head(cs).name,
                generateId(type, Head(cs).name)))

RefsAfterResponses(s, refs) ==
  [refs EXCEPT !.componentRefs =
     RegisterComponents(ComponentResponses(s), ResponsesPrefix, "response-",
                        refs.componentRefs)]

BODY_METHODS == <<"post", "put", "patch">>

\* Lines 376-394: the inline request bodies of the operations.
RECURSIVE OperationBodies(_, _)
OperationBodies(ops, refs) ==
  IF ops = <<>> THEN <<>>
  ELSE
   LET operation == Head(ops).item[Head(ops).method]
       key == OperationIdOr(operation, <<Head(ops).method, "-body">>)
   IN (IF Has(operation, "requestBody") /\ ~Has(operation.requestBody, "ref")
       THEN <<[key     |-> key,
               id      |-> generateId("request-body-", key),
               content |-> normalizeContent(
                             IF Has(operation.requestBody, "content")
                             THEN operation.requestBody.content ELSE Absent, refs)]>>
       ELSE <<>>)
      \o OperationBodies(Tail(ops), refs)

ComponentBodies(s) ==
  IF Has(s, "components") /\ Has(s.components, "requestBodies")
  THEN s.components.requestBodies ELSE <<>>

BodyEntity(id, content) ==
  IF content = Absent THEN [id |-> id] ELSE [id |-> id, content |-> content]

\* extractRequestBodies(spec)
extractRequestBodies(s, refs) ==
  LET inline == KeepFirstByKey(
                  OperationBodies(Operations(Section(s, "paths"), BODY_METHODS), refs), {})
      cs == ComponentBodies(s)
  IN [i \in 1..Len(inline) |-> BodyEntity(inline[i].id, inline[i].content)]
     \o [i \in 1..Len(cs) |->
           [id      |-> generateId("request-body-", cs[i].name),
            content |-> OrEmpty(normalizeContent(
                          IF Has(cs[i].body, "content") THEN cs[i].body.content
                          ELSE Absent, refs))]]

RefsAfterBodies(s, refs) ==
  [refs EXCEPT !.componentRefs =
     RegisterComponents(ComponentBodies(s), BodiesPrefix, "request-body-",
                        refs.componentRefs)]

\* extractMetadata(spec): name and version, each present when info has it
\* (the other members are copied).
extractMetadata(s) ==
  LET version == [k \in {"version"} \cap DOMAIN s.info |-> s.info[k]]
  IN IF Has(s.info, "title") THEN WithKey(version, "name", s.info.title) ELSE version

\* The fields of a SwaggerToJSONConverter instance (lines 15-17).
NewInstance ==
  [idCounters |-> EmptyMap, schemaRefs |-> EmptyMap, componentRefs |-> EmptyMap]

\* resetCounters() left out: the fields stay as the last call left them.
resetCounters_kept(inst) == inst

\* resetCounters(): the three fields after it.
resetCounters(inst) == NewInstance

RefsOf(inst) == [schemaRefs |-> inst.schemaRefs, componentRefs |-> inst.componentRefs]

\* The reference maps at the four points of normalizeSwagger where they
\* are read: after buildReferenceMap, and after each extraction that
\* registers component references.
RefsBuilt(s, inst)  == buildReferenceMap(getSchemaMap(s), RefsOf(resetCounters(inst)))
RefsParams(s, inst) == RefsAfterParameters(s, RefsBuilt(s, inst))
RefsResps(s, inst)  == RefsAfterResponses(s, RefsParams(s, inst))
RefsFinal(s, inst)  == RefsAfterBodies(s, RefsResps(s, inst))

\* idCounters[type] after generateId was called for the given types
\* (lines 500-502), none of the calls being anonymous.
Touched(counters, types) ==
  [t \in DOMAIN counters \cup types |-> IF t \in DOMAIN counters THEN counters[t] ELSE 0]

\* normalizeSwagger(spec): the members in the order they are evaluated.
\* generateId('api', spec.info.title) (line 51): a missing title makes the
\* call anonymous, the ID is then `api-${++idCounters.api}`.
normalizeSwagger(s, inst) ==
  [id            |-> IF Has(s.info, "title") THEN generateId("api-", s.info.title)
                     ELSE <<"api-",
                            ToString(Touched(resetCounters(inst).idCounters,
                                             {"api-"})["api-"] + 1)>>,
   metadata      |-> extractMetadata(s),
   endpoints     |-> extractEndpoints(s, RefsBuilt(s, inst)),
   schemas       |-> extractSchemas(s, RefsBuilt(s, inst)),
   parameters    |-> extractParameters(s),
   responses     |-> extractResponses(s, RefsParams(s, inst)),
   requestBodies |-> extractRequestBodies(s, RefsResps(s, inst))]

\* The types generateId is called for by buildReferenceMap.
SchemaTypes(s) == IF getSchemaMap(s) # <<>> THEN {"schema-"} ELSE {}

\* The types generateId is called for in a whole normalizeSwagger; the
\* only anonymous call the documents lead to is that for the API's ID.
GeneratedTypes(s) ==
  LET ops == Operations(Section(s, "paths"), HttpMethods)
      op(i) == ops[i].item[ops[i].method]
  IN {"api-"} \cup SchemaTypes(s)
        \cup (IF ops # <<>> THEN {"endpoint-"} ELSE {})
        \cup (IF ParamCandidates(s) # <<>>
                 \/ \E i \in 1..Len(ops) :
                      \E j \in 1..Len(Section(op(i), "parameters")) :
                         ~Has(op(i).parameters[j], "ref")
              THEN {"param-"} ELSE {})
        \cup (IF ComponentResponses(s) # <<>>
                 \/ \E i \in 1..Len(ops) :
                      \E c \in DOMAIN Section(op(i), "responses") :
                         ~Has(op(i).responses[c], "ref")
              THEN {"response-"} ELSE {})
        \cup (IF ComponentBodies(s) # <<>>
                 \/ \E i \in 1..Len(ops) :
                      Has(op(i), "requestBody") /\ ~Has(op(i).requestBody, "ref")
              THEN {"request-body-"} ELSE {})

\* idCounters after normalizeSwagger(spec).
CountersAfter(s, inst) ==
  LET touched == Touched(resetCounters(inst).idCounters, GeneratedTypes(s))
  IN IF Has(s.info, "title") THEN touched ELSE [touched EXCEPT !["api-"] = @ + 1]

\* collectWarnings that warns only about a paths member that is empty.
collectWarnings_emptyOnly(s) ==
  (IF ~Has(s, "openapi") /\ ~Has(s, "swagger")
   THEN <<"No OpenAPI or Swagger version specified">> ELSE <<>>)
  \o (IF Has(s, "paths") /\ s.paths = <<>>
      THEN <<"No paths defined in the specification">> ELSE <<>>)

\* collectWarnings(spec)
collectWarnings(s) ==
  (IF ~Has(s, "openapi") /\ ~Has(s, "swagger")
   THEN <<"No OpenAPI or Swagger version specified">> ELSE <<>>)
  \o (IF ~Has(s, "paths") \/ s.paths = <<>>
      THEN <<"No paths defined in the specification">> ELSE <<>>)

\* A document text is given by what the two parsers make of it: the value
\* JSON.parse returns and the value YAML.parse returns, or the error each
\* throws.  A parsed value is a document object, a scalar [str |-> s], or
\* null.
Null == [null |-> TRUE]
Error(message) == [error |-> message]
IsError(v) == Has(v, "error")

\* The text of a document in JSON, and in YAML (which JSON.parse rejects).
JsonText(v) == [json |-> v, yaml |-> v]
YamlText(v) == [json |-> Error("Unexpected token"), yaml |-> v]

\* parseSwagger(content): JSON first, YAML when JSON.parse throws; the
\* error of YAML.parse is passed on.
parseSwagger(content) ==
  IF ~IsError(content.json) THEN content.json ELSE content.yaml

\* The TypeError normalizeSwagger raises on a parsed value, or <<>>: a
\* null value fails in getSchemaMap (line 216), a value without info at
\* spec.info.title (line 51).
TypeErrorOf(s) ==
  IF s = Null
  THEN <<Error("Cannot read properties of null (reading 'components')")>>
  ELSE IF ~Has(s, "info")
  THEN <<Error("Cannot read properties of undefined (reading 'title')")>>
  ELSE <<>>

\* The try block of convert (lines 21-28) on the parsed value: the result
\* returned, or the error thrown.
Converted(s, inst) ==
  IF IsError(s) THEN s
  ELSE IF TypeErrorOf(s) # <<>> THEN TypeErrorOf(s)[1]
  ELSE [success  |-> TRUE,
        data     |-> normalizeSwagger(s, inst),
        warnings |-> collectWarnings(s)]

\* The catch block of convert (lines 29-34).
Caught(outcome) ==
  IF IsError(outcome) THEN [success |-> FALSE, error |-> outcome.error] ELSE outcome

\* convert without its try/catch: the error reaches the caller.
convert_uncaught(content, inst) == Converted(parseSwagger(content), inst)

\* convert(swaggerContent)
convert(content, inst) == Caught(Converted(parseSwagger(content), inst))

\* The instance's fields after convert(swaggerContent): untouched when the
\* parse fails, reset when the value is null, as buildReferenceMap leaves
\* them when spec.info is missing, else as the extraction leaves them.
FieldsAfter(s, inst) ==
  IF IsError(s) THEN inst
  ELSE IF s = Null THEN resetCounters(inst)
  ELSE IF ~Has(s, "info")
  THEN [idCounters    |-> Touched(resetCounters(inst).idCounters, SchemaTypes(s)),
        schemaRefs    |-> RefsBuilt(s, inst).schemaRefs,
        componentRefs |-> RefsBuilt(s, inst).componentRefs]
  ELSE [idCounters    |-> CountersAfter(s, inst),
        schemaRefs    |-> RefsFinal(s, inst).schemaRefs,
        componentRefs |-> RefsFinal(s, inst).componentRefs]

(***************************************************************************)
(* JSONToSwaggerConverter (json-to-swagger.ts)                             *)
(*                                                                         *)
(* An object whose keys are in insertion order (paths, schemas, ...) is a  *)
(* sequence of [name, ...] records, as in the documents convert reads.     *)
(* Members that are undefined are left out of the records; summary, tags,  *)
(* security, headers, examples, servers and securitySchemes are undefined  *)
(* for every document enumerated here.                                     *)
(***************************************************************************)
\* The four Maps of a new instance (lines 5-8).
NewMaps ==
  [schemaMap |-> EmptyMap, parameterMap |-> EmptyMap, responseMap |-> EmptyMap,
   requestBodyMap |-> EmptyMap]

\* buildMaps(api) on an instance: its Maps after it; nothing is deleted
\* from them.  SetAll: entities.forEach(e => map.set(e.id, e)).
buildMaps(api, inst) ==
  LET SetAll(map, entities) ==
        [id \in DOMAIN map \cup {entities[i].id : i \in 1..Len(entities)} |->
           IF \E i \in 1..Len(entities) : entities[i].id = id
           THEN entities[CHOOSE i \in 1..Len(entities) :
                           /\ entities[i].id = id
                           /\ \A j \in (i + 1)..Len(entities) : entities[j].id # id]
           ELSE map[id]]
  IN
  [schemaMap      |-> SetAll(inst.schemaMap, api.schemas),
   parameterMap   |-> SetAll(inst.parameterMap, api.parameters),
   responseMap    |-> SetAll(inst.responseMap, api.responses),
   requestBodyMap |-> SetAll(inst.requestBodyMap, api.requestBodies)]

\* cleanObject(obj) for the members named: a member that is an object and
\* is empty after cleaning is deleted.
DropEmpty(obj, members) ==
  [k \in {x \in DOMAIN obj : x \notin members \/ obj[x] # <<>>} |-> obj[k]]

\* obj[e.name] = e[member] for the entries in order: a key keeps the place
\* of its first assignment and the value of its last.
Assigned(entries, member) ==
  LET first == {i \in 1..Len(entries) :
                  \A j \in 1..(i - 1) : entries[j].name # entries[i].name}
      last(n) == CHOOSE i \in 1..Len(entries) :
                   /\ entries[i].name = n
                   /\ \A j \in (i + 1)..Len(entries) : entries[j].name # n
      kept == SelectSeq([i \in 1..Len(entries) |-> i], LAMBDA i : i \in first)
  IN [i \in 1..Len(kept) |->
        [entries[kept[i]] EXCEPT ![member] = entries[last(entries[kept[i]].name)][member]]]

\* `#/components/schemas/${schema.name}` for an ID of the schemaMap.
SchemaPointer(id, inst) == [ref |-> <<SchemasPrefix>> \o inst.schemaMap[id].name]

\* resolveSchemaReference(schemaRef) (lines 283-293)
resolveSchemaReference(schemaRef, inst) ==
  IF Has(schemaRef, "str")
  THEN IF schemaRef.str \in DOMAIN inst.schemaMap
       THEN SchemaPointer(schemaRef.str, inst)
       ELSE [ref |-> schemaRef.str]
  ELSE schemaRef

\* buildContent(content) after cleanObject: a media type without schema is
\* an empty object and is deleted.
buildContent(content, inst) ==
  [mediaType \in {t \in DOMAIN content : Has(content[t], "schema")} |->
     [schema |-> resolveSchemaReference(content[mediaType].schema, inst)]]

\* {description, headers, content: buildContent(e.content)} after
\* cleanObject, for a response or request body entity.
Described(e, inst) ==
  LET d == IF Has(e, "description") THEN [description |-> e.description] ELSE EmptyMap
  IN IF Has(e, "content") /\ buildContent(e.content, inst) # <<>>
     THEN WithKey(d, "content", buildContent(e.content, inst)) ELSE d

\* {name, in, description, required, schema} for a parameter entity.
ParameterObject(param) == [name |-> param.name, in |-> param.in, schema |-> param.schema]

\* buildOperationParameters(parameterIds) (lines 166-185), for a list that
\* is not empty.
buildOperationParameters(parameterIds, inst) ==
  [i \in 1..Len(parameterIds) |->
     IF parameterIds[i] \in DOMAIN inst.parameterMap
     THEN ParameterObject(inst.parameterMap[parameterIds[i]])
     ELSE [ref |-> <<ParamsPrefix>> \o parameterIds[i]]]

\* buildOperationRequestBody(requestBodyId) (lines 229-244)
buildOperationRequestBody(requestBodyId, inst) ==
  IF requestBodyId \in DOMAIN inst.requestBodyMap
  THEN Described(inst.requestBodyMap[requestBodyId], inst)
  ELSE [ref |-> <<BodiesPrefix>> \o requestBodyId]

\* buildOperationResponses(responses) (lines 246-263)
buildOperationResponses(responses, inst) ==
  [code \in DOMAIN responses |->
     IF responses[code] \in DOMAIN inst.responseMap
     THEN Described(inst.responseMap[responses[code]], inst)
     ELSE [ref |-> <<ResponsesPrefix>> \o responses[code]]]

\* The operation object of buildPaths (lines 119-131) after cleanObject.
\* withBody: OpenAPI 3 (requestBody) or Swagger 2 (no such member).
OperationObject(endpoint, parameters, withBody, inst) ==
  LET o == IF Has(endpoint, "operationId")
           THEN [operationId |-> endpoint.operationId] ELSE EmptyMap
      p == IF parameters = <<>> THEN o ELSE WithKey(o, "parameters", parameters)
      b == IF withBody /\ Has(endpoint, "requestBody")
           THEN WithKey(p, "requestBody",
                        buildOperationRequestBody(endpoint.requestBody, inst))
           ELSE p
  IN DropEmpty(WithKey(b, "responses", buildOperationResponses(endpoint.responses, inst)),
               {"requestBody", "responses"})

\* paths[endpoint.path][endpoint.method.toLowerCase()] = operation for the
\* endpoints in order (lines 111-137, 139-164).
PathsOf(endpoints, operations) ==
  LET at(path) == {i \in 1..Len(endpoints) : endpoints[i].path = path}
      lower(i) == LowerMethod(endpoints[i].method)
      item(path) ==
        [m \in {lower(i) : i \in at(path)} |->
           operations[CHOOSE i \in at(path) :
                        /\ lower(i) = m
                        /\ \A j \in at(path) : j > i => lower(j) # m]]
      first == SelectSeq([i \in 1..Len(endpoints) |-> i],
                 LAMBDA i : \A j \in 1..(i - 1) : endpoints[j].path # endpoints[i].path)
  IN [i \in 1..Len(first) |->
        [path |-> endpoints[first[i]].path, item |-> item(endpoints[first[i]].path)]]

buildPaths(api, inst) ==
  PathsOf(api.endpoints,
          [i \in 1..Len(api.endpoints) |->
             OperationObject(api.endpoints[i],
                             buildOperationParameters(api.endpoints[i].parameters, inst),
                             TRUE, inst)])

\* buildSwagger2Parameters(endpoint) (lines 187-227): the parameters found
\* in the parameterMap, then the body parameter.
buildSwagger2Parameters(endpoint, inst) ==
  LET found == SelectSeq(endpoint.parameters, LAMBDA id : id \in DOMAIN inst.parameterMap)
      body  == inst.requestBodyMap[endpoint.requestBody]
  IN [i \in 1..Len(found) |->
        LET param == inst.parameterMap[found[i]]
        IN [k \in {"name", "in"} \cup DOMAIN param.schema |->
              IF k \in DOMAIN param.schema THEN param.schema[k] ELSE param[k]]]
     \o (IF Has(endpoint, "requestBody")
            /\ endpoint.requestBody \in DOMAIN inst.requestBodyMap
         THEN <<IF Has(body.content, JSON) /\ Has(body.content[JSON], "schema")
                THEN [name |-> <<"body">>, in |-> "body",
                      schema |-> resolveSchemaReference(body.content[JSON].schema, inst)]
                ELSE [name |-> <<"body">>, in |-> "body"]>>
         ELSE <<>>)

\* buildSchemas(api) (lines 295-319): schemas[schema.name] = schemaObj,
\* with buildSchemaProperties (321-342) and buildSchemaItems (344-357).
buildSchemas(api, inst) ==
  LET buildSchemaProperties(properties) ==
        [key \in DOMAIN properties |->
           IF Has(properties[key], "ref") /\ properties[key].ref \in DOMAIN inst.schemaMap
           THEN SchemaPointer(properties[key].ref, inst)
           ELSE properties[key]]
      buildSchemaItems(items) ==
        IF Has(items, "str") /\ items.str \in DOMAIN inst.schemaMap
        THEN SchemaPointer(items.str, inst)
        ELSE items
  IN
  Assigned(
    [i \in 1..Len(api.schemas) |->
       LET schema == api.schemas[i]
           t == [type |-> schema.type]
           p == IF Has(schema, "properties")
                THEN WithKey(t, "properties",
                             buildSchemaProperties(schema.properties))
                ELSE t
           q == IF Has(schema, "items")
                THEN WithKey(p, "items", buildSchemaItems(schema.items)) ELSE p
       IN [name   |-> schema.name,
           schema |-> DropEmpty(IF Has(schema, "enum")
                                THEN WithKey(q, "enum", schema.enum) ELSE q,
                                {"properties"})]],
    "schema")

\* buildComponentParameters, buildComponentResponses and
\* buildComponentRequestBodies (lines 359-415) after cleanObject.
buildComponents(api, inst) ==
  [parameters |->
     Assigned([i \in 1..Len(api.parameters) |->
                 [name  |-> api.parameters[i].name,
                  param |-> ParameterObject(api.parameters[i])]], "param"),
   responses |->
     SelectSeq(
       Assigned([i \in 1..Len(api.responses) |->
                   [name     |-> Compact(replace(api.responses[i].id, "response-", "")),
                    response |-> Described(api.responses[i], inst)]], "response"),
       LAMBDA e : e.response # <<>>),
   requestBodies |->
     SelectSeq(
       Assigned([i \in 1..Len(api.requestBodies) |->
                   [name |-> Compact(replace(api.requestBodies[i].id,
                                             "request-body-", "")),
                    body |-> Described(api.requestBodies[i], inst)]], "body"),
       LAMBDA e : e.body # <<>>)]

\* info: {title: api.metadata.name, version: api.metadata.version, ...}
InfoOf(api) ==
  LET v == [k \in {"version"} \cap DOMAIN api.metadata |-> api.metadata[k]]
  IN IF Has(api.metadata, "name") THEN WithKey(v, "title", api.metadata.name) ELSE v

\* cleanObject on the paths: operations, then path items, that are empty
\* objects are deleted.
CleanPaths(paths) ==
  SelectSeq([i \in 1..Len(paths) |->
               [path |-> paths[i].path,
                item |-> DropEmpty(paths[i].item, DOMAIN paths[i].item)]],
            LAMBDA p : p.item # <<>>)

\* buildOpenAPISpec(api) (lines 31-58) for the Maps as buildMaps left
\* them, after cleanObject(spec).
buildOpenAPISpec(api, inst) ==
  LET components == [schemas       |-> buildSchemas(api, inst),
                     parameters    |-> buildComponents(api, inst).parameters,
                     responses     |-> buildComponents(api, inst).responses,
                     requestBodies |-> buildComponents(api, inst).requestBodies]
      all == [openapi    |-> "3.0.0",
              info       |-> InfoOf(api),
              paths      |-> CleanPaths(buildPaths(api, inst)),
              components |-> DropEmpty(components, DOMAIN components)]
  IN DropEmpty(all, {"info", "paths", "components"})

\* buildSwagger2Spec(api) (lines 60-87); api.metadata.baseUrl is undefined.
\* body.content of a body entity without content is undefined: reading
\* its member in buildSwagger2Parameters (line 211) throws.
buildSwagger2Spec(api, inst) ==
  IF \E i \in 1..Len(api.endpoints) :
       /\ Has(api.endpoints[i], "requestBody")
       /\ api.endpoints[i].requestBody \in DOMAIN inst.requestBodyMap
       /\ ~Has(inst.requestBodyMap[api.endpoints[i].requestBody], "content")
  THEN Error("Cannot read properties of undefined (reading 'application/json')")
  ELSE
   LET buildSwagger2Paths ==
         PathsOf(api.endpoints,
                 [i \in 1..Len(api.endpoints) |->
                    OperationObject(api.endpoints[i],
                                    buildSwagger2Parameters(api.endpoints[i], inst),
                                    FALSE, inst)])
       all == [swagger     |-> "2.0",
               info        |-> InfoOf(api),
               basePath    |-> "/",
               schemes     |-> <<"https">>,
               paths       |-> CleanPaths(buildSwagger2Paths),
               definitions |-> buildSchemas(api, inst),
               parameters  |-> buildComponents(api, inst).parameters,
               responses   |-> buildComponents(api, inst).responses]
   IN DropEmpty(all, {"info", "paths", "definitions", "parameters", "responses"})

\* JSON.stringify(spec, null, 2) or YAML.stringify(spec): the text, which
\* JSON.parse reads back only in the first case.
Stringify(value, format) ==
  IF IsError(value) THEN value
  ELSE IF format = "json" THEN JsonText(value) ELSE YamlText(value)

\* convertToOpenAPI(normalized, format) and convertToSwagger2(normalized,
\* format) on an instance with the given Maps: the text returned, or the
\* error thrown.
convertToOpenAPI(api, format, inst) ==
  Stringify(buildOpenAPISpec(api, buildMaps(api, inst)), format)

convertToSwagger2(api, format, inst) ==
  Stringify(buildSwagger2Spec(api, buildMaps(api, inst)), format)

(***************************************************************************)
(* Documents                                                               *)
(***************************************************************************)
SchemaId(n) == generateId(SchemaIdPrefix, <<n>>)

\* The spellings of a reference to the schema named n.
Spellings(n) == {<<SchemasPrefix, n>>, <<n>>, SchemaId(n)}

StringEnum == <<"a", "b">>

\* Inline schema shapes, nested to depth d.
LeafShapes ==
  {[type |-> "string"], [type |-> "number"],
   [type |-> "string", enum |-> StringEnum], [enum |-> StringEnum], EmptyMap}
  \cup {[ref |-> <<SchemasPrefix, n>>] : n \in {"Status", "Level", "Address", "Missing"}}

RECURSIVE Shapes(_)
Shapes(d) ==
  IF d = 0 THEN LeafShapes
  ELSE LET sub == Shapes(d - 1) IN
       LeafShapes
       \cup {[type |-> "array"], [type |-> "object"],
             [type |-> "object", additionalProperties |-> [bool |-> TRUE]]}
       \cup {[type |-> "array", items |-> x] : x \in sub}
       \cup {[type |-> "object", properties |-> [g |-> x]] : x \in sub}
       \cup {[type |-> "object", additionalProperties |-> x] : x \in sub}

\* A hand-built NormalizedAPI with one endpoint GET /test whose 200
\* response carries the JSON schema root (the form the repository's tests
\* hand to FieldViewConverter).
HandDoc(root, schemas) ==
  [metadata      |-> [title |-> <<"Test API">>, version |-> "1.0.0"],
   endpoints     |-> <<[id        |-> <<"endpoint-", "1">>,
                        path      |-> "/test",
                        method    |-> "GET",
                        responses |-> [c \in {"200"} |-> <<"response-", "1">>]]>>,
   parameters    |-> <<>>,
   requestBodies |-> <<>>,
   responses     |-> <<[id |-> <<"response-", "1">>,
                        content |-> [c \in {JSON} |-> [schema |-> root]]]>>,
   schemas       |-> schemas]

AddressProps == [street |-> [type |-> "string"], city |-> [type |-> "string"]]

\* LevelSchema is an enum declared without `type`, as extractSchemas
\* stores it.
ShapeDocs ==
  LET StatusSchema  == [id |-> SchemaId("Status"), name |-> <<"Status">>,
                        type |-> "string", enum |-> StringEnum]
      LevelSchema   == [id |-> SchemaId("Level"), name |-> <<"Level">>,
                        type |-> "object", enum |-> StringEnum]
      AddressSchema == [id |-> SchemaId("Address"), name |-> <<"Address">>,
                        type |-> "object", properties |-> AddressProps]
  IN {HandDoc([type |-> "object", properties |-> [f |-> x]],
              <<StatusSchema, LevelSchema, AddressSchema>>) : x \in Shapes(MaxShapeDepth)}

\* Schema graphs: Category refers to itself (parent, children) and possibly
\* to Address, which possibly refers back to Category.
RefOptions(n) == {[ref |-> r] : r \in Spellings(n)}

GraphDocs ==
  LET CategoryGraph(parent, children, address, owner) ==
        <<[id |-> SchemaId("Category"), name |-> <<"Category">>, type |-> "object",
           properties |->
             LET base == [id       |-> [type |-> "string"],
                          parent   |-> parent,
                          children |-> [type |-> "array", items |-> children]]
             IN IF address = EmptyMap THEN base ELSE WithKey(base, "address", address)],
          [id |-> SchemaId("Address"), name |-> <<"Address">>, type |-> "object",
           properties |-> IF owner = EmptyMap THEN AddressProps
                          ELSE WithKey(AddressProps, "owner", owner)]>>
      Graphs ==
        {CategoryGraph(p, c, a, o) :
           p \in RefOptions("Category"), c \in RefOptions("Category"),
           a \in {EmptyMap} \cup RefOptions("Address"),
           o \in {EmptyMap} \cup RefOptions("Category")}
      GraphRoots ==
        {Str(SchemaId("Category")), [ref |-> <<SchemasPrefix, "Category">>],
         [type |-> "array", items |-> [ref |-> <<SchemasPrefix, "Address">>]]}
        \cup {[type |-> "object",
               properties |-> [categories |-> [type |-> "array", items |-> x]]] :
                x \in RefOptions("Category")}
        \cup {[type |-> "object",
               properties |-> [shippingAddress |-> x, billingAddress |-> y]] :
                x \in RefOptions("Address"), y \in RefOptions("Address")}
  IN {HandDoc(root, g) : root \in GraphRoots, g \in Graphs}

HandDocs == ShapeDocs \cup GraphDocs

\* Hand-built documents for the view builders alone.  CodeDocs have one
\* endpoint GET /test whose responses are any choice of the status codes
\* 200, 201, 202 and 404; the response of a code carries either no content
\* or a JSON schema whose single property is named after the code.
\* MissingDocs reference a schema Missing that the document does not have:
\* from a property (gone), from the items of an inline array (list) and
\* from the items of the named array schema Bag (bag), next to the
\* siblings name and home, in every spelling of the reference.
\* ArrayDocs have a property f that is an inline array of 1..MaxArrayDepth
\* dimensions over strings, numbers, objects or nothing (the innermost
\* array has no items).  BodyDocs have the endpoints POST /a and POST /b,
\* which name the request bodies request-body-a and request-body-b; the
\* document has any choice of the two bodies, each with one property named
\* after its endpoint.
ViewDocs ==
  LET Codes == {"200", "201", "202", "404"}
      Kinds == [Codes -> {"absent", "plain", "json"}]
      Chosen(kind) == {c \in Codes : kind[c] # "absent"}
      ResponseEntity(c, kind) ==
        IF kind[c] = "json"
        THEN [id |-> <<"response-", c>>, description |-> "ok",
              content |-> [m \in {JSON} |->
                             [schema |-> [type |-> "object",
                                          properties |-> [k \in {c} |->
                                                            [type |-> "string"]]]]]]
        ELSE [id |-> <<"response-", c>>, description |-> "ok"]
      CodeDoc(kind) ==
        [metadata      |-> [title |-> <<"Test API">>, version |-> "1.0.0"],
         endpoints     |-> <<[id        |-> <<"endpoint-", "1">>,
                              path      |-> "/test",
                              method    |-> "GET",
                              responses |-> [c \in Chosen(kind) |-> <<"response-", c>>]]>>,
         parameters    |-> <<>>,
         requestBodies |-> <<>>,
         responses     |-> LET cs == SelectSeq(<<"200", "201", "202", "404">>,
                                                 LAMBDA c : c \in Chosen(kind))
                           IN [i \in 1..Len(cs) |-> ResponseEntity(cs[i], kind)],
         schemas       |-> <<>>]
      CodeDocs == {CodeDoc(kind) : kind \in {k \in Kinds : Chosen(k) # {}}}
      AddressSchema == [id |-> SchemaId("Address"), name |-> <<"Address">>,
                        type |-> "object", properties |-> AddressProps]
      BagSchema(items) == [id |-> SchemaId("Bag"), name |-> <<"Bag">>,
                           type |-> "array", items |-> items]
      MissingDocs ==
        {HandDoc([type |-> "object",
                  properties |-> [name |-> [type |-> "string"],
                                  home |-> [ref |-> SchemaId("Address")],
                                  gone |-> [ref |-> g],
                                  list |-> [type |-> "array", items |-> [ref |-> l]],
                                  bag  |-> [ref |-> SchemaId("Bag")]]],
                 <<AddressSchema, BagSchema(b)>>) :
           g \in Spellings("Missing"), l \in Spellings("Missing"),
           b \in {[ref |-> SchemaId("Missing")], Str(SchemaId("Missing")),
                  [ref |-> SchemaId("Address")]}}
      Nested(x) ==
        LET nest[n \in 0..MaxArrayDepth] ==
              IF n = 0 THEN x ELSE [type |-> "array", items |-> nest[n - 1]]
        IN {nest[n] : n \in 1..MaxArrayDepth}
      ArrayDocs ==
        {HandDoc([type |-> "object", properties |-> [f |-> a]], <<>>) :
           a \in {[type |-> "array"]}
                 \cup UNION {Nested(x) :
                               x \in {[type |-> "string"], [type |-> "number"],
                                      [type |-> "array"],
                                      [type |-> "object",
                                       properties |-> [g |-> [type |-> "string"]]]}}}
      BodyOf(name) ==
        [id |-> <<"request-body-", name>>,
         content |-> [m \in {JSON} |->
                        [schema |-> [type |-> "object",
                                     properties |-> [k \in {name} |-> [type |-> "string"]]]]]]
      BodyEndpoint(name) ==
        [id |-> <<"endpoint-", name>>, path |-> "/" \o name, method |-> "POST",
         requestBody |-> <<"request-body-", name>>,
         responses |-> [c \in {"200"} |-> <<"response-", "1">>]]
      BodyDocs ==
        {[HandDoc([type |-> "object", properties |-> [ok |-> [type |-> "boolean"]]], <<>>)
            EXCEPT !.endpoints = <<BodyEndpoint("a"), BodyEndpoint("b")>>,
                   !.requestBodies = SelectSeq(<<BodyOf("a"), BodyOf("b")>>,
                                               LAMBDA b : b \in present)] :
           present \in SUBSET {BodyOf("a"), BodyOf("b")}}
  IN CodeDocs \cup MissingDocs \cup ArrayDocs \cup BodyDocs

\* Raw documents.  pre is the prefix the document's schema references
\* use: "#/components/schemas/" in an OpenAPI 3 document (schemas under
\* components), "#/definitions/" in a Swagger 2.0 document.
RawSchemas(pre, withLimit) ==
  <<[name |-> <<"Category">>,
     schema |-> [type |-> "object",
                 properties |-> [id       |-> [type |-> "string"],
                                 parent   |-> [ref |-> <<pre, "Category">>],
                                 children |-> [type |-> "array",
                                               items |-> [ref |-> <<pre, "Category">>]]]]],
    [name |-> <<"Address">>, schema |-> [type |-> "object", properties |-> AddressProps]],
    [name |-> <<"Pet">>,
     schema |-> [type |-> "object",
                 properties |-> [id |-> [type |-> "integer"], name |-> [type |-> "string"]]]],
    [name |-> <<"Pet_Item">>,
     schema |-> [type |-> "object",
                 properties |-> [id |-> [type |-> "integer"], name |-> [type |-> "string"]]]],
    [name |-> <<"PetList">>,
     schema |-> [type |-> "array", items |-> [ref |-> <<pre, "Pet">>]]],
    [name |-> <<"Status">>, schema |-> [type |-> "string", enum |-> StringEnum]],
    [name |-> <<"Owner">>,
     schema |-> [type |-> "object",
                 properties |-> [name |-> [type |-> "string"],
                                 pets |-> [ref |-> <<pre, "PetList">>],
                                 home |-> [ref |-> <<pre, "Address">>]]]]>>
  \o (IF withLimit THEN <<[name |-> <<"Limit">>, schema |-> [type |-> "integer"]]>>
      ELSE <<>>)

RawRoots(pre) ==
  {[ref |-> <<pre, "Category">>],
   [ref |-> <<pre, "PetList">>],
   [ref |-> <<pre, "Owner">>],
   [type |-> "object",
    properties |-> [categories |-> [type |-> "array",
                                    items |-> [ref |-> <<pre, "Category">>]]]],
   [type |-> "object",
    properties |-> [shippingAddress |-> [ref |-> <<pre, "Address">>],
                    billingAddress  |-> [ref |-> <<pre, "Address">>],
                    status          |-> [ref |-> <<pre, "Status">>]]],
   [type |-> "array", items |-> [ref |-> <<pre, "Pet">>]],
   [type |-> "array", items |-> [ref |-> <<pre, "Pet_Item">>]],
   [type |-> "array", items |-> [type |-> "string"]]}

\* The component parameters of every raw document.
RawComponentParams ==
  <<[name |-> <<"Limit">>,
     param |-> [name |-> <<"limit">>, in |-> "query", schema |-> [type |-> "integer"]]],
    [name |-> <<"Page_No">>,
     param |-> [name |-> <<"page">>, in |-> "query", schema |-> [type |-> "integer"]]]>>

\* What an operation's parameter list may hold: references to the two
\* component parameters, a reference with no target, an inline parameter.
MaxParams == 2

RawParamLists(ppre) ==
  LET RawParamOptions ==
        {[ref |-> <<ppre, "Limit">>], [ref |-> <<ppre, "Page_No">>],
         [ref |-> <<ppre, "Missing">>],
         [name |-> <<"q">>, in |-> "query", schema |-> [type |-> "string"]]}
  IN UNION {[1..n -> RawParamOptions] : n \in 0..MaxParams}

RawDoc(v3, method, root, params, withLimit, withOpId) ==
  LET response == IF v3 THEN [description |-> "ok",
                              content |-> [c \in {JSON} |-> [schema |-> root]]]
                  ELSE [description |-> "ok", schema |-> root]
      base == [parameters |-> params,
               responses  |-> [c \in {"200"} |-> response]]
      withId == IF withOpId THEN WithKey(base, "operationId", <<"listPets">>) ELSE base
      operation == IF method = "post"
                   THEN WithKey(withId, "requestBody",
                                [content |-> [c \in {JSON} |-> [schema |-> root]]])
                   ELSE withId
      info  == [title |-> <<"Pets">>, version |-> "1.0.0"]
      paths == <<[path |-> "/pets", item |-> [m \in {method} |-> operation]]>>
  IN IF v3
     THEN [openapi |-> "3.0.0", info |-> info, paths |-> paths,
           components |-> [schemas    |-> RawSchemas(SchemasPrefix, withLimit),
                           parameters |-> RawComponentParams]]
     ELSE [swagger |-> "2.0", info |-> info, paths |-> paths,
           definitions |-> RawSchemas(DefsPrefix, withLimit),
           parameters  |-> RawComponentParams]

RawDocs ==
  UNION {
    {RawDoc(v3, method, root, params, withLimit, withOpId) :
       method \in {"get", "post"},
       root \in RawRoots(IF v3 THEN SchemasPrefix ELSE DefsPrefix),
       params \in RawParamLists(IF v3 THEN ParamsPrefix ELSE Params2Prefix),
       withLimit \in BOOLEAN, withOpId \in BOOLEAN} : v3 \in BOOLEAN}


\* Documents for the converter alone.  Their components hold the schema
\* Pet, the parameter Limit, the response PetList and the request body
\* PetBody; an operation may define its parameters, request body and
\* response inline or refer to those.  OperationDocs have one operation in
\* every combination of its parts (a parameter list that is empty, has one
\* inline parameter, the same name in two locations, or a reference);
\* TwoOperationDocs have two operations with the same operationId or with
\* none; SectionDocs lack the version key, the title, paths or the schemas,
\* and their schema names differ only in characters outside [a-z0-9].
ConvDocs ==
  LET PetSchema ==
        [type |-> "object",
         properties |-> [id |-> [type |-> "integer"], name |-> [type |-> "string"]]]
      PetContent == [c \in {JSON} |-> [schema |-> [ref |-> <<SchemasPrefix, "Pet">>]]]
      Components ==
        [schemas       |-> <<[name |-> <<"Pet">>, schema |-> PetSchema]>>,
         parameters    |-> <<[name |-> <<"Limit">>,
                              param |-> [name |-> <<"limit">>, in |-> "query",
                                         schema |-> [type |-> "integer"]]]>>,
         responses     |-> <<[name |-> <<"PetList">>,
                              response |-> [description |-> "pets",
                                            content |-> PetContent]]>>,
         requestBodies |-> <<[name |-> <<"PetBody">>, body |-> [content |-> PetContent]]>>]
      QueryQ  == [name |-> <<"q">>, in |-> "query",  schema |-> [type |-> "string"]]
      HeaderQ == [name |-> <<"q">>, in |-> "header", schema |-> [type |-> "string"]]
      ParamLists ==
        {<<>>, <<QueryQ>>, <<QueryQ, HeaderQ>>, <<[ref |-> <<ParamsPrefix, "Limit">>]>>}
      StringContent == [c \in {JSON} |-> [schema |-> [type |-> "string"]]]
      InlineBody == [content |-> StringContent]
      Bodies == {EmptyMap, InlineBody, [ref |-> <<BodiesPrefix, "PetBody">>]}
      InlineResponse == [description |-> "ok", content |-> StringContent]
      Responses == {InlineResponse, [ref |-> <<ResponsesPrefix, "PetList">>]}
      Operation(operationId, params, body, response) ==
        LET base  == [responses |-> [c \in {"200"} |-> response]]
            withP == IF params = <<>> THEN base ELSE WithKey(base, "parameters", params)
            withB == IF body = EmptyMap THEN withP ELSE WithKey(withP, "requestBody", body)
        IN IF operationId = <<>> THEN withB ELSE WithKey(withB, "operationId", operationId)
      PathItem(path, method, operation) ==
        [path |-> path, item |-> [m \in {method} |-> operation]]
      Info == [title |-> <<"Pets">>, version |-> "1.0.0"]
      OperationDocs ==
        {[openapi |-> "3.0.0", info |-> Info,
          paths |-> <<PathItem("/pets", m, Operation(o, p, b, r))>>,
          components |-> Components] :
           m \in {"get", "post", "delete", "options"}, o \in {<<>>, <<"listPets">>},
           p \in ParamLists, b \in Bodies, r \in Responses}
      TwoOperationDocs ==
        {[openapi |-> "3.0.0", info |-> Info,
          paths |-> <<PathItem("/pets", m, Operation(o, p, InlineBody, InlineResponse)),
                      PathItem("/pets/{petId}", m,
                               Operation(o, p, InlineBody, InlineResponse))>>,
          components |-> Components] :
           m \in {"get", "post"}, o \in {<<>>, <<"listPets">>}, p \in {<<>>, <<QueryQ>>}}
      CollidingSchemas ==
        <<[name |-> <<"Pet_Item">>, schema |-> PetSchema],
          [name |-> <<"Pet-Item">>, schema |-> [type |-> "string"]],
          [name |-> <<"Owner">>,
           schema |-> [type |-> "object",
                       properties |-> [pet |-> [ref |-> <<SchemasPrefix, "Pet">>]]]]>>
      SectionDoc(version, withTitle, paths, schemas) ==
        LET v == IF version = "openapi" THEN [openapi |-> "3.0.0"]
                 ELSE IF version = "swagger" THEN [swagger |-> "2.0"] ELSE EmptyMap
            i == WithKey(v, "info", IF withTitle THEN Info ELSE [version |-> "1.0.0"])
            p == IF paths = "none" THEN i ELSE WithKey(i, "paths", <<>>)
        IN IF schemas = "none" THEN p
           ELSE IF schemas = "definitions" THEN WithKey(p, "definitions", CollidingSchemas)
           ELSE WithKey(p, "components", [schemas |-> CollidingSchemas])
      SectionDocs ==
        {SectionDoc(version, withTitle, paths, schemas) :
           version \in {"openapi", "swagger", "none"}, withTitle \in BOOLEAN,
           paths \in {"none", "empty"}, schemas \in {"none", "definitions", "components"}}
  IN OperationDocs \cup TwoOperationDocs \cup SectionDocs

\* Texts neither parser accepts.
MalformedTexts ==
  {[json |-> Error("Unexpected token"), yaml |-> Error(m)] :
     m \in {"Nested mappings are not allowed in compact mappings",
            "Missing closing \"quote"}}

\* The texts handed to convert: the documents as JSON, those without
\* operations as YAML as well, values that parse but are no document with
\* an info member, and the malformed texts.
Contents ==
  {JsonText(d) : d \in ConvDocs}
  \cup {YamlText(d) : d \in {x \in ConvDocs : Section(x, "paths") = <<>>}}
  \cup {JsonText(Null)}
  \cup {YamlText(v) : v \in {Null, Str("This is not valid YAML or JSON"),
                             [openapi |-> "3.0.0", paths |-> <<>>],
                             [swagger |-> "2.0",
                              definitions |-> <<[name |-> <<"Pet">>,
                                                 schema |-> [type |-> "object"]]>>]}}
  \cup MalformedTexts

(***************************************************************************)
(* The state machine                                                       *)
(***************************************************************************)
\* const spec = this.parseSwagger(swaggerContent) (line 21)
spec == IF swaggerContent = NoSpec THEN NoSpec ELSE parseSwagger(swaggerContent)

NoProbe == [exp |-> 0, dup |-> FALSE]
NoOutput == [none |-> "output"]

\* A new JSONToSwaggerConverter instance and an empty backend.
Untouched ==
  /\ maps = NewMaps
  /\ openapi = NoOutput
  /\ apis = EmptyMap
  /\ now = 0
  /\ requests = <<>>

Init ==
  /\ \/ swaggerContent \in {JsonText(d) : d \in RawDocs} /\ normalized = NoDoc
     \/ swaggerContent = NoSpec /\ normalized \in HandDocs
  /\ result = NoResult
  /\ schemaRefs = EmptyMap
  /\ componentRefs = EmptyMap
  /\ idCounters = EmptyMap
  /\ simplified = NoView
  /\ fieldView = NoView
  /\ probe = NoProbe
  /\ calls = 0
  /\ Untouched

\* The fields of the converter instance in the current state.
Fields ==
  [idCounters |-> idCounters, schemaRefs |-> schemaRefs, componentRefs |-> componentRefs]

\* converter.convert(content) on the instance; the caller hands result.data
\* to the view builder when the result has it.
Call(content) ==
  /\ calls < MaxCalls
  /\ calls' = calls + 1
  /\ result' = convert(content, Fields)
  /\ normalized' = IF Has(result', "data") THEN result'.data ELSE NoDoc
  /\ idCounters' = FieldsAfter(parseSwagger(content), Fields).idCounters
  /\ schemaRefs' = FieldsAfter(parseSwagger(content), Fields).schemaRefs
  /\ componentRefs' = FieldsAfter(parseSwagger(content), Fields).componentRefs

\* SwaggerToJSONConverter.convert(swaggerContent)
Convert ==
  /\ swaggerContent # NoSpec
  /\ Call(swaggerContent)
  /\ UNCHANGED <<swaggerContent, simplified, fieldView, probe, reverseVars, backendVars>>

\* The caller receives the view of the run (or its exception).
Returns(run) ==
  /\ simplified' = ViewOfRun(run, normalized)
  /\ probe' = [exp |-> run.exp, dup |-> run.dup]

\* A view builder that empties the schema collection it has read.
AfterProjection_consumed(doc) == [doc EXCEPT !.schemas = <<>>]

\* The caller's document after a view builder has run on it: no statement
\* of convertToFieldView, createSimplifiedFieldView, extractFields or the
\* resolvers assigns to a member of normalized or of one of its entities;
\* they build new objects (fields, operation, simplified) and new Sets.
AfterProjection(doc) == doc

\* FieldViewConverter.createSimplifiedFieldView(normalized)
CreateSimplifiedFieldView ==
  /\ normalized # NoDoc
  /\ Returns(SimplifiedRun(normalized))
  /\ normalized' = AfterProjection(normalized)
  /\ UNCHANGED <<swaggerContent, result, schemaRefs, componentRefs, idCounters,
                 fieldView, calls, reverseVars, backendVars>>

\* FieldViewConverter.convertToFieldView(normalized)
ConvertToFieldView ==
  /\ normalized # NoDoc
  /\ fieldView' = convertToFieldView(normalized)
  /\ normalized' = AfterProjection(normalized)
  /\ UNCHANGED <<swaggerContent, result, schemaRefs, componentRefs, idCounters,
                 simplified, probe, calls, reverseVars, backendVars>>

Next == Convert \/ CreateSimplifiedFieldView \/ ConvertToFieldView

Spec == Init /\ [][Next]_vars

\* One converter instance is handed one text after the other.
InstanceInit ==
  /\ swaggerContent = NoSpec
  /\ result = NoResult
  /\ idCounters = NewInstance.idCounters
  /\ schemaRefs = NewInstance.schemaRefs
  /\ componentRefs = NewInstance.componentRefs
  /\ normalized = NoDoc
  /\ simplified = NoView
  /\ fieldView = NoView
  /\ probe = NoProbe
  /\ calls = 0
  /\ Untouched

\* converter.convert(content) for the next text.
ConvertNext ==
  \E content \in Contents :
    /\ swaggerContent' = content
    /\ Call(content)
    /\ UNCHANGED <<simplified, fieldView, probe, reverseVars, backendVars>>

InstanceSpec == InstanceInit /\ [][ConvertNext]_vars

\* The view builders are handed a hand-built document.
ViewInit ==
  /\ swaggerContent = NoSpec
  /\ normalized \in ViewDocs
  /\ result = NoResult
  /\ schemaRefs = EmptyMap
  /\ componentRefs = EmptyMap
  /\ idCounters = EmptyMap
  /\ simplified = NoView
  /\ fieldView = NoView
  /\ probe = NoProbe
  /\ calls = 0
  /\ Untouched

ViewSpec == ViewInit /\ [][CreateSimplifiedFieldView \/ ConvertToFieldView]_vars

\* The documents converted and converted back.  MethodDocs are the
\* documents of ConvDocs with one operation that refers to the parameter
\* Limit and defines its request body and response inline, under each
\* method with and without operationId.  PathDocs have path items with and
\* without operations the converter knows, and one has no title.
ReverseDocs ==
  LET Ok == [responses |-> [c \in {"200"} |-> [description |-> "ok"]]]
      Query == [name |-> <<"q">>, in |-> "query", schema |-> [type |-> "string"]]
      P(path, item) == [path |-> path, item |-> item]
      PathDoc(info, paths) ==
        [openapi |-> "3.0.0", info |-> info, paths |-> paths,
         components |-> [schemas |-> <<[name |-> <<"Pet">>,
                                        schema |-> [type |-> "object"]]>>]]
      Info == [title |-> <<"Pets">>, version |-> "1.0.0"]
      PathDocs ==
        {PathDoc(Info, paths) :
           paths \in {<<P("/pets", [get |-> Ok]), P("/pets/{petId}", [post |-> Ok])>>,
                      <<P("/pets", [get |-> Ok]), P("/pets/{petId}", [trace |-> Ok])>>,
                      <<P("/pets", [parameters |-> <<Query>>]),
                        P("/pets/{petId}", [get |-> Ok])>>,
                      <<P("/pets", [get |-> EmptyMap])>>}}
        \cup {PathDoc([version |-> "1.0.0"], <<P("/pets", [get |-> Ok])>>)}
      MethodDocs ==
        {d \in ConvDocs :
           /\ Len(Section(d, "paths")) = 1
           /\ \E m \in DOMAIN d.paths[1].item :
                LET operation == d.paths[1].item[m]
                IN /\ Section(operation, "parameters") = <<[ref |-> <<ParamsPrefix, "Limit">>]>>
                   /\ Has(operation, "requestBody") /\ ~Has(operation.requestBody, "ref")
                   /\ ~Has(operation.responses["200"], "ref")}
  IN PathDocs \cup MethodDocs

\* The texts of these documents: JSON, and YAML for those without a title.
ReverseTexts ==
  {JsonText(d) : d \in ReverseDocs}
  \cup {YamlText(d) : d \in {x \in ReverseDocs : ~Has(x.info, "title")}}

\* swaggerConverter.convert(content) for the next text; the caller has no
\* output for the new document yet.
ConvertText ==
  \E content \in ReverseTexts :
    /\ swaggerContent' = content
    /\ Call(content)
    /\ openapi' = NoOutput
    /\ UNCHANGED <<simplified, fieldView, probe, maps, backendVars>>

\* jsonConverter.convertToOpenAPI(normalized, format)
ConvertToOpenAPI ==
  /\ normalized # NoDoc
  /\ \E format \in {"json", "yaml"} :
       openapi' = [call |-> "convertToOpenAPI", format |-> format,
                   text |-> convertToOpenAPI(normalized, format, maps)]
  /\ maps' = buildMaps(normalized, maps)
  /\ UNCHANGED <<frontendVars, backendVars>>

\* jsonConverter.convertToSwagger2(normalized, format)
ConvertToSwagger2 ==
  /\ normalized # NoDoc
  /\ \E format \in {"json", "yaml"} :
       openapi' = [call |-> "convertToSwagger2", format |-> format,
                   text |-> convertToSwagger2(normalized, format, maps)]
  /\ maps' = buildMaps(normalized, maps)
  /\ UNCHANGED <<frontendVars, backendVars>>

\* One instance of each converter: texts are converted, and the results
\* converted back, one after the other.
ReverseSpec ==
  InstanceInit /\ [][ConvertText \/ ConvertToOpenAPI \/ ConvertToSwagger2]_vars

(***************************************************************************)
(* Backend (Go): APIService, ValidatorService, ConverterService and        *)
(* InMemoryAPIRepository.  Go strings are strings here; a request runs in  *)
(* its own goroutine, the repository's mutex makes Save one step.          *)
(***************************************************************************)
\* The empty request body.
EmptyContent == [empty |-> TRUE]

\* The documents sent to the import: with a title, an empty title or none,
\* without paths, and with an operation under get or under trace.
BackendTexts ==
  LET Doc(info, item) ==
        [openapi |-> "3.0.0", info |-> info,
         paths |-> <<[path |-> "/pets", item |-> item]>>]
      Get == [get |-> [summary |-> "List"]]
  IN {JsonText(Doc([title |-> t, version |-> "1.0.0"], Get)) : t \in {"Pets", "Shop", ""}}
     \cup {YamlText(Doc([title |-> "Pets", version |-> "2.0.0"], Get)),
           JsonText(Doc([title |-> "Pets", version |-> "1.0.0"],
                        [trace |-> [summary |-> "Trace"]])),
           JsonText([openapi |-> "3.0.0", info |-> [title |-> "Pets", version |-> "1.0.0"]]),
           JsonText(Doc([version |-> "1.0.0"], Get)),
           EmptyContent,
           [json |-> Error("invalid character"), yaml |-> Error("yaml: did not find")]}

\* The definitions sent to the create endpoint: without ID, with an ID of
\* the client's, without a name.
BackendApis ==
  {[ID |-> id, Metadata |-> [Name |-> n, Version |-> "1.0.0"], Endpoints |-> <<>>] :
     id \in {"", "mine"}, n \in {"Pets", ""}}

\* json.Unmarshal, then yaml.Unmarshal when it fails.
Unmarshal(content) == IF ~IsError(content.json) THEN content.json ELSE content.yaml

\* ValidateSwagger(content).Valid (validator_service.go:17-91)
ValidateSwagger(content) ==
  LET s == Unmarshal(content)
  IN /\ ~IsError(s)
     /\ Has(s, "openapi") \/ Has(s, "swagger")
     /\ Has(s, "info") /\ Has(s.info, "title") /\ Has(s.info, "version")
     /\ Has(s, "paths")

\* ValidateAPIDefinition(api).Valid (validator_service.go:122-174)
ValidateAPIDefinition(api) ==
  /\ api.Metadata.Name # ""
  /\ api.Metadata.Version # ""
  /\ \A i \in 1..Len(api.Endpoints) :
       /\ api.Endpoints[i].Path # ""
       /\ api.Endpoints[i].Method
            \in {"GET", "POST", "PUT", "DELETE", "PATCH", "OPTIONS", "HEAD"}

\* ConvertSwaggerToJSON(request).Data for a text that parses (part_008
\* lines 18-82), with generateID (120-122), getStringValue (124-129) and
\* extractEndpoints (131-168): one endpoint for every member of a path
\* item that is an object; each document here has one.
ConvertSwaggerToJSON(content) ==
  LET s == Unmarshal(content)
      generateID == "1234567890"
      getStringValue(m, key, defaultValue) == IF Has(m, key) THEN m[key] ELSE defaultValue
      upper(m) == IF m = "trace" THEN "TRACE" ELSE UpperMethod(m)
      dashed(path) == IF path = "/pets" THEN "-pets" ELSE path
      method(item) == CHOOSE m \in DOMAIN item : TRUE
      endpointsOf(paths) ==
        [i \in 1..Len(paths) |->
           [ID      |-> "endpoint-" \o method(paths[i].item) \o "-"
                          \o dashed(paths[i].path),
            Path    |-> paths[i].path,
            Method  |-> upper(method(paths[i].item)),
            Summary |-> paths[i].item[method(paths[i].item)].summary]]
  IN [ID        |-> "generated-" \o generateID,
      Metadata  |-> [Name    |-> getStringValue(s.info, "title", "Untitled API"),
                     Version |-> getStringValue(s.info, "version", "1.0.0")],
      Endpoints |-> endpointsOf(Section(s, "paths"))]

\* CreateAPIDefinition up to the call of repo.Save: validation, the ID
\* (uuid.New() is an ID no other call gets) and the timestamps; `given` is
\* the ID the definition came with.
Stamped(api, request) ==
  IF ~ValidateAPIDefinition(api) THEN [pc |-> "failed", given |-> api.ID]
  ELSE [pc  |-> "stamped", given |-> api.ID,
        api |-> [ID        |-> IF api.ID = "" THEN "uuid-" \o ToString(request) ELSE api.ID,
                 Metadata  |-> api.Metadata,
                 Endpoints |-> api.Endpoints,
                 CreatedAt |-> now,
                 UpdatedAt |-> now]]

\* ImportSwagger(content) up to the call of repo.Save.
Imported(content, request) ==
  IF content = EmptyContent \/ ~ValidateSwagger(content)
  THEN [pc |-> "failed", given |-> ""]
  ELSE Stamped(ConvertSwaggerToJSON(content), request)

\* APIService.ImportSwagger(content) is called and runs up to repo.Save
\* (or fails).
ImportSwagger ==
  /\ Len(requests) < MaxRequests
  /\ \E content \in BackendTexts :
       requests' = Append(requests, WithKey(Imported(content, Len(requests) + 1),
                                            "op", "ImportSwagger"))
  /\ UNCHANGED <<frontendVars, reverseVars, apis, now>>

\* APIService.CreateAPIDefinition(api) is called and runs up to repo.Save
\* (or fails).
CreateAPIDefinition ==
  /\ Len(requests) < MaxRequests
  /\ \E api \in BackendApis :
       requests' = Append(requests, WithKey(Stamped(api, Len(requests) + 1),
                                            "op", "CreateAPIDefinition"))
  /\ UNCHANGED <<frontendVars, reverseVars, apis, now>>

\* InMemoryAPIRepository.Save(api): r.apis[api.ID] = api, for the request
\* that gets the lock next; the handler returns.
Save ==
  \E i \in 1..Len(requests) :
    /\ requests[i].pc = "stamped"
    /\ apis' = MapSet(apis, requests[i].api.ID, requests[i].api)
    /\ requests' = [requests EXCEPT ![i].pc = "saved"]
    /\ UNCHANGED <<frontendVars, reverseVars, now>>

\* The clock advances.
Tick ==
  /\ now < MaxTime
  /\ now' = now + 1
  /\ UNCHANGED <<frontendVars, reverseVars, apis, requests>>

BackendSpec ==
  InstanceInit /\ [][ImportSwagger \/ CreateAPIDefinition \/ Save \/ Tick]_vars

(***************************************************************************)
(* Properties                                                              *)
(***************************************************************************)
\* Equality of two projected trees, compared tag by tag.
RECURSIVE SameTree(_, _)
SameTree(a, b) ==
  /\ a.t = b.t
  /\ CASE a.t = "arr" -> SameTree(a.v, b.v)
       [] a.t = "map" -> /\ DOMAIN a.v = DOMAIN b.v
                         /\ \A k \in DOMAIN a.v : SameTree(a.v[k], b.v[k])
       [] OTHER -> a.v = b.v

\* The projected tree ft holds the leaf "circular-ref" somewhere.
RECURSIVE HasCircular(_)
HasCircular(ft) ==
  CASE ft.t = "arr" -> HasCircular(ft.v)
    [] ft.t = "map" -> \E k \in DOMAIN ft.v : HasCircular(ft.v[k])
    [] OTHER -> ft.v = "circular-ref"

\* ft is a field map with the field k.
HasField(ft, k) == ft.t = "map" /\ k \in DOMAIN ft.v

SimplifiedDone == simplified # NoView
Returned == SimplifiedDone /\ simplified # ThrownView

\* The keys of the simplified view's endpoints and their response_fields.
Entries == IF Returned THEN DOMAIN simplified.endpoints ELSE {}
ResponseFieldsOf(k) == simplified.endpoints[k].response_fields

\* The JSON schema of the document's first response entity, if it has one.
HasRoot ==
  /\ normalized # NoDoc
  /\ Len(normalized.responses) > 0
  /\ Has(normalized.responses[1], "content")
  /\ HasJsonSchema(normalized.responses[1].content)
Root == normalized.responses[1].content[JSON].schema

AddressTree == Map([street |-> Prim("string"), city |-> Prim("string")])

C2_SelfReferenceCut ==
  \A k \in Entries :
     LET ft == ResponseFieldsOf(k) IN
     (HasField(ft, "categories") /\ ft.v.categories.t = "arr"
        /\ HasField(ft.v.categories.v, "parent"))
     => /\ SameTree(ft.v.categories.v.v.parent, CircularRef)
        /\ SameTree(ft.v.categories.v.v.children, Arr(CircularRef))

\* The distinct schemas of the document.
SchemaIds(doc) == {doc.schemas[i].id : i \in 1..Len(doc.schemas)}

\* C3: on no recursion path is a schema expanded that the path has already
\* expanded, whatever the spelling of the references, so the expansions
\* nested on a path never outnumber the document's distinct schemas.
C3_ExpandedOnce ==
  SimplifiedDone => (~probe.dup /\ probe.exp <= Cardinality(SchemaIds(normalized)))

\* The document's response schema is an inline object whose properties
\* shippingAddress and billingAddress both reference Address, and Address
\* is not cyclic (it has no owner property).
SiblingCase ==
  /\ HasRoot
  /\ Has(Root, "properties")
  /\ {"shippingAddress", "billingAddress"} \subseteq DOMAIN Root.properties
  /\ \A i \in 1..Len(normalized.schemas) :
        normalized.schemas[i].id = SchemaId("Address")
        => ~Has(normalized.schemas[i].properties, "owner")

\* C4: two sibling properties that reference the same non-cyclic schema
\* are both projected to the complete field tree of that schema; neither
\* is cut as "circular-ref" because the other was followed first.
C4_SiblingIndependence ==
  SiblingCase =>
    \A k \in Entries :
       LET ft == ResponseFieldsOf(k) IN
       (HasField(ft, "shippingAddress") /\ HasField(ft, "billingAddress"))
       => /\ SameTree(ft.v.shippingAddress, AddressTree)
          /\ SameTree(ft.v.billingAddress, AddressTree)

\* The schema entity that a reference names: the one registered under the
\* name that ends the reference, or under the id that the reference is.
Names(ref, schema) == schema.name = <<ref[Len(ref)]>> \/ schema.id = ref
HasTarget(ref, doc) == \E i \in 1..Len(doc.schemas) : Names(ref, doc.schemas[i])
TargetOf(ref, doc) ==
  doc.schemas[CHOOSE i \in 1..Len(doc.schemas) : Names(ref, doc.schemas[i])]

\* The schema declares an enum, inline or in the schema it references.
DeclaresEnum(schema, doc) ==
  \/ Has(schema, "enum")
  \/ /\ Has(schema, "ref")
     /\ HasTarget(schema.ref, doc)
     /\ Has(TargetOf(schema.ref, doc), "enum")

\* Every enum below the inline schema is "string" in its projection ft.
RECURSIVE EnumsCollapsed(_, _, _)
EnumsCollapsed(schema, ft, doc) ==
  IF DeclaresEnum(schema, doc) THEN SameTree(ft, Prim("string"))
  ELSE IF Has(schema, "properties")
    THEN ft.t = "map" =>
           \A k \in DOMAIN schema.properties \cap DOMAIN ft.v :
              EnumsCollapsed(schema.properties[k], ft.v[k], doc)
  ELSE IF Has(schema, "items")
    THEN IF DeclaresEnum(schema.items, doc) THEN SameTree(ft, Arr(Prim("string")))
         ELSE ft.t = "arr" => EnumsCollapsed(schema.items, ft.v, doc)
  ELSE TRUE

\* C5: every property that declares a string enum, inline or through a
\* reference, with or without `type`, at any depth, is projected to
\* "string", and to ["string"] where it is the item type of an array.
C5_EnumCollapse ==
  (HasRoot /\ Has(Root, "properties")) =>
     \A k \in Entries : EnumsCollapsed(Root, ResponseFieldsOf(k), normalized)

\* The response schema is an object whose property f is the inline schema x.
FIs(x) == HasRoot /\ Has(Root, "properties") /\ Has(Root.properties, "f")
          /\ Root.properties.f = x

\* N nested inline arrays over the item schema x, and N nested one-element
\* array prototypes over the projected type t.
RECURSIVE ArrayOf(_, _)
ArrayOf(n, x) == IF n = 0 THEN x ELSE [type |-> "array", items |-> ArrayOf(n - 1, x)]
RECURSIVE ProtoOf(_, _)
ProtoOf(n, t) == IF n = 0 THEN t ELSE Arr(ProtoOf(n - 1, t))

\* C6: an inline array of arrays of string is projected to [["string"]],
\* an inline array of arrays of arrays of number to [[["number"]]].
C6_ArrayDimensions ==
  \A k \in Entries :
     /\ FIs(ArrayOf(2, [type |-> "string"]))
          => /\ HasField(ResponseFieldsOf(k), "f")
             /\ SameTree(ResponseFieldsOf(k).v.f, ProtoOf(2, Prim("string")))
     /\ FIs(ArrayOf(3, [type |-> "number"]))
          => /\ HasField(ResponseFieldsOf(k), "f")
             /\ SameTree(ResponseFieldsOf(k).v.f, ProtoOf(3, Prim("number")))

\* C6 witness: the three-dimensional array of number has been projected
\* with all its dimensions.
C6_Witness ==
  /\ FIs(ArrayOf(3, [type |-> "number"]))
  /\ \E k \in Entries :
        /\ HasField(ResponseFieldsOf(k), "f")
        /\ ResponseFieldsOf(k).v.f.t = "arr"
        /\ ResponseFieldsOf(k).v.f.v.t = "arr"
        /\ ResponseFieldsOf(k).v.f.v.v.t = "arr"
        /\ ResponseFieldsOf(k).v.f.v.v.v.t = "prim"
        /\ ResponseFieldsOf(k).v.f.v.v.v.v = "number"

KeyString == "[key: string]"

\* The additionalProperties schemas the rule speaks of: a primitive, an
\* object with properties, an array.
IsValueSchema(ap) ==
  /\ IsObject(ap)
  /\ Has(ap, "type")
  /\ \/ ap.type \in {"string", "number"} /\ ~Has(ap, "enum")
     \/ ap.type = "object" /\ Has(ap, "properties")
     \/ ap.type = "array"

\* C7: an inline object property without properties and with an
\* additionalProperties schema is projected to a map with the single key
\* "[key: string]": its value is the type name for a primitive, a nested
\* field map for an object with properties, a one-element array prototype
\* for an array; in each case what the schema is projected to where it
\* stands as a property itself.
C7_AdditionalProperties ==
  (HasRoot /\ Has(Root, "properties") /\ Has(Root.properties, "f")
     /\ Has(Root.properties.f, "type") /\ Root.properties.f.type = "object"
     /\ ~Has(Root.properties.f, "properties")
     /\ Has(Root.properties.f, "additionalProperties")
     /\ IsValueSchema(Root.properties.f.additionalProperties))
  => \A k \in Entries :
        LET ap == Root.properties.f.additionalProperties
            ft == ResponseFieldsOf(k)
        IN /\ HasField(ft, "f")
           /\ ft.v.f.t = "map"
           /\ DOMAIN ft.v.f.v = {KeyString}
           /\ LET value == ft.v.f.v[KeyString]
              IN /\ CASE ap.type = "object" -> value.t = "map"
                      [] ap.type = "array"  -> value.t = "arr"
                      [] OTHER -> SameTree(value, Prim(ap.type))
                 /\ SameTree(value, FieldOf(ap, normalized, {}, {}, 1).out)

\* The item schema of an array schema is an object schema: inline with
\* properties, or a reference that names a schema with properties.
ItemIsObject(items, doc) ==
  \/ Has(items, "properties")
  \/ Has(items, "ref") /\ HasTarget(items.ref, doc)
       /\ Has(TargetOf(items.ref, doc), "properties")

\* The properties of that item schema.
ItemProperties(items, doc) ==
  IF Has(items, "properties") THEN items.properties
  ELSE TargetOf(items.ref, doc).properties

\* C8: when the JSON schema of an endpoint's success response is an array
\* whose items are or reference an object schema, response_fields is the
\* one-element array of the item schema's projected field map; when the
\* items are primitives it is the one-element array of the type name.
C8_ResponseArray ==
  (HasRoot /\ IsObject(Root) /\ Has(Root, "type") /\ Root.type = "array"
     /\ Has(Root, "items") /\ IsObject(Root.items))
  => \A k \in Entries :
        IF ItemIsObject(Root.items, normalized)
        THEN SameTree(ResponseFieldsOf(k),
                      Arr(extractFields(ItemProperties(Root.items, normalized),
                                        normalized, {}, {}, 1).out))
        ELSE (Has(Root.items, "type") /\ ~Has(Root.items, "ref"))
             => SameTree(ResponseFieldsOf(k), Arr(Prim(Root.items.type)))

\* The operations of the raw document: <<method, path, operation>>.
RawOps ==
  IF spec = NoSpec THEN {}
  ELSE UNION {{<<m, spec.paths[i].path, spec.paths[i].item[m]>> :
                 m \in DOMAIN spec.paths[i].item} : i \in 1..Len(spec.paths)}

\* The component parameters the raw document defines.
DefinedParams ==
  IF Has(spec, "components") THEN spec.components.parameters ELSE spec.parameters

\* The parameter an entry of an operation's list stands for, if any.
IsValidParam(p) ==
  ~Has(p, "ref") \/ \E i \in 1..Len(DefinedParams) :
                       DefinedParams[i].name = <<p.ref[Len(p.ref)]>>
ParamOf(p) ==
  IF ~Has(p, "ref") THEN p
  ELSE DefinedParams[CHOOSE i \in 1..Len(DefinedParams) :
                       DefinedParams[i].name = <<p.ref[Len(p.ref)]>>].param

\* C9: where an operation's parameter list holds a reference without
\* target next to valid parameters, convert and createSimplifiedFieldView
\* return, and the simplified view's parameters map of the endpoint holds
\* exactly the valid parameters, name mapped to type.
C9_MissingParameter ==
  (spec # NoSpec /\ SimplifiedDone) =>
     /\ Returned
     /\ \A op \in RawOps :
          LET list  == op[3].parameters
              valid == {ParamOf(list[i]) : i \in {j \in 1..Len(list) : IsValidParam(list[j])}}
              key   == <<UpperMethod(op[1]), op[2]>>
          IN ((\E i \in 1..Len(list) : ~IsValidParam(list[i])) /\ valid # {})
             => /\ key \in DOMAIN simplified.endpoints
                /\ LET got == simplified.endpoints[key].parameters
                   IN /\ DOMAIN got = {p.name : p \in valid}
                      /\ \A p \in valid : got[p.name] = p.schema.type

\* The endpoints of the document that the field view was built from, and
\* the operation object the field view holds for one of them.
FieldViewDone == fieldView # NoView
ViewedEndpoints ==
  IF FieldViewDone
  THEN {normalized.endpoints[i] : i \in 1..Len(normalized.endpoints)}
  ELSE {}
OperationOf(endpoint) == fieldView.paths[endpoint.path][LowerMethod(endpoint.method)]
ParameterRefs(endpoint) ==
  IF Has(endpoint, "parameters") THEN endpoint.parameters ELSE <<>>

\* The positions of an endpoint's parameter list whose entry is (is not)
\* the id of a Parameter entity, and the names of the parameters found.
ResolvedAt(endpoint) ==
  {i \in 1..Len(ParameterRefs(endpoint)) :
     Found(normalized.parameters, ParameterRefs(endpoint)[i])}
UnresolvedAt(endpoint) ==
  (1..Len(ParameterRefs(endpoint))) \ ResolvedAt(endpoint)
ResolvedNames(endpoint) ==
  {Find(normalized.parameters, ParameterRefs(endpoint)[i]).name : i \in ResolvedAt(endpoint)}

\* C10 (as stated): in the field view every parameter reference of an
\* endpoint that cannot be resolved to a Parameter entity leaves a
\* placeholder entry in the operation's parameters, next to the entries of
\* the parameters that were resolved.
C10_Placeholder ==
  \A e \in ViewedEndpoints :
     UnresolvedAt(e) # {}
     => \E n \in DOMAIN OperationOf(e).parameters : n \notin ResolvedNames(e)

\* C10 (amended): in the field view a parameter reference that cannot be
\* resolved to a Parameter entity is dropped without a trace, as in the
\* simplified view: the operation's parameters hold exactly the parameters
\* that were found, each under its name with its location and type.
C10_UnresolvedDropped ==
  \A e \in ViewedEndpoints :
     /\ DOMAIN OperationOf(e).parameters = ResolvedNames(e)
     /\ \A i \in ResolvedAt(e) :
          LET paramData == Find(normalized.parameters, ParameterRefs(e)[i])
          IN \E j \in ResolvedAt(e) :
               LET last == Find(normalized.parameters, ParameterRefs(e)[j])
               IN /\ last.name = paramData.name
                  /\ OperationOf(e).parameters[paramData.name]
                       = [location |-> last.in, type |-> ParamType(last)]

\* C10 witness: the field view of an endpoint whose parameter list holds an
\* unresolved reference next to a parameter that was found.
C10_Witness ==
  \E e \in ViewedEndpoints :
     /\ UnresolvedAt(e) # {}
     /\ ResolvedNames(e) # {}
     /\ DOMAIN OperationOf(e).parameters = ResolvedNames(e)

(***************************************************************************)
(* The converter instance: error handling                                  *)
(***************************************************************************)
\* convert has been called on the text in swaggerContent.
ConvertDone == swaggerContent # NoSpec /\ result # NoResult

\* The result of a failed conversion: success false, a non-empty error
\* string, and no other member (no data, nothing thrown).
IsFailure(r) ==
  /\ DOMAIN r = {"success", "error"}
  /\ r.success = FALSE
  /\ r.error # ""

\* C11: when the document text is neither valid JSON nor valid YAML,
\* convert returns success = false with a non-empty error string and no
\* data; it does not throw and returns no partial data.
C11_MalformedInput ==
  (ConvertDone /\ swaggerContent \in MalformedTexts) => IsFailure(result)

\* A malformed text has been converted, after an earlier successful call.
C11_Witness ==
  /\ ConvertDone
  /\ swaggerContent \in MalformedTexts
  /\ IsFailure(result)
  /\ schemaRefs # EmptyMap

\* The text in swaggerContent parses, as JSON or as YAML.
Parses == ~IsError(parseSwagger(swaggerContent))

\* A successful result: success true and a NormalizedAPI as data.
IsSuccess(r) ==
  /\ Has(r, "success") /\ r.success = TRUE
  /\ Has(r, "data")
  /\ {"id", "metadata", "endpoints", "schemas", "parameters", "responses",
      "requestBodies"} \subseteq DOMAIN r.data

\* C12: only a parse failure produces success = false: for every text that
\* parses as JSON or YAML, whatever sections the value lacks, convert
\* returns success = true with a NormalizedAPI.
C12_OnlyParseFailures ==
  (ConvertDone /\ Parses) => IsSuccess(result)

\* The parsed document has info but neither paths nor components nor
\* definitions.
LacksSections ==
  /\ ConvertDone /\ Parses
  /\ Has(spec, "info")
  /\ ~Has(spec, "paths") /\ ~Has(spec, "components") /\ ~Has(spec, "definitions")

NoPathsWarning == "No paths defined in the specification"

Warned(r, w) == \E i \in 1..Len(r.warnings) : r.warnings[i] = w

\* C13: a parsable document with info but without paths and without
\* components / definitions converts with success = true, with empty
\* endpoints, schemas, parameters, responses and requestBodies, and with
\* the warning that no paths are defined.
C13_MissingSections ==
  LacksSections =>
    /\ IsSuccess(result)
    /\ result.data.endpoints = <<>>
    /\ result.data.schemas = <<>>
    /\ result.data.parameters = <<>>
    /\ result.data.responses = <<>>
    /\ result.data.requestBodies = <<>>
    /\ Warned(result, NoPathsWarning)

\* Such a document, with its version key, has been converted from YAML:
\* the one warning is that about the paths, and no reference is registered.
C13_Witness ==
  /\ LacksSections
  /\ IsError(swaggerContent.json)
  /\ Has(spec, "swagger")
  /\ result.success
  /\ result.warnings = <<NoPathsWarning>>
  /\ schemaRefs = EmptyMap

(***************************************************************************)
(* The converter instance: identifiers and references                      *)
(***************************************************************************)
\* A conversion has succeeded; result.data is its NormalizedAPI.
Succeeded == ConvertDone /\ Has(result, "data")

Collections == {"endpoints", "schemas", "parameters", "responses", "requestBodies"}

\* No two entities of the list have the same id.
UniqueIds(entities) ==
  \A i, j \in 1..Len(entities) : entities[i].id = entities[j].id => i = j

\* C14: in the NormalizedAPI returned by one convert call, no two entities
\* of the same collection have the same id.
C14_UniqueIds ==
  Succeeded => \A c \in Collections : UniqueIds(result.data[c])

Ids(entities) == {entities[i].id : i \in 1..Len(entities)}

\* The operations of the converted document, in the order of data.endpoints.
ConvertedOps == Operations(Section(spec, "paths"), HttpMethods)

\* What endpoint i refers to and the document defines inline is in the
\* collections of data.
SelfContained(data, endpoint, o) ==
  /\ \A j \in 1..Len(Section(o.item, "parameters") \o Section(o.item[o.method], "parameters")) :
       ~Has((Section(o.item, "parameters") \o Section(o.item[o.method], "parameters"))[j], "ref")
         => endpoint.parameters[j] \in Ids(data.parameters)
  /\ (Has(o.item[o.method], "requestBody") /\ ~Has(o.item[o.method].requestBody, "ref"))
       => endpoint.requestBody \in Ids(data.requestBodies)
  /\ \A code \in DOMAIN Section(o.item[o.method], "responses") :
       ~Has(o.item[o.method].responses[code], "ref")
         => endpoint.responses[code] \in Ids(data.responses)

\* C15: every ID in an endpoint's parameters list, its requestBody ID and
\* every ID in its responses map that stems from an inline definition of
\* the operation is the id of an entity in the parameters, requestBodies or
\* responses collection of the same NormalizedAPI.
C15_SelfContained ==
  Succeeded =>
    \A i \in 1..Len(result.data.endpoints) :
       SelfContained(result.data, result.data.endpoints[i], ConvertedOps[i])

\* The names defined in a section of the document's components.
ComponentNames(section) == {section[i].name : i \in 1..Len(section)}

\* ref is `${prefix}${N}` for a name N of the section.
RefersInto(ref, prefix, section) ==
  Len(ref) > 1 /\ ref[1] = prefix /\ Tail(ref) \in ComponentNames(section)

\* Every $ref of the operation to a component parameter, response or
\* request body of the document is stored in the endpoint as the ID of
\* that entity.
Forwarded(endpoint, o) ==
  /\ \A j \in 1..Len(Section(o.item, "parameters") \o Section(o.item[o.method], "parameters")) :
       LET param == (Section(o.item, "parameters") \o Section(o.item[o.method], "parameters"))[j]
       IN (Has(param, "ref") /\ RefersInto(param.ref, ParamsPrefix, ComponentParams(spec)))
            => endpoint.parameters[j] = generateId("param-", Tail(param.ref))
  /\ (Has(o.item[o.method], "requestBody") /\ Has(o.item[o.method].requestBody, "ref")
      /\ RefersInto(o.item[o.method].requestBody.ref, BodiesPrefix, ComponentBodies(spec)))
       => endpoint.requestBody
            = generateId("request-body-", Tail(o.item[o.method].requestBody.ref))
  /\ \A code \in DOMAIN Section(o.item[o.method], "responses") :
       LET response == o.item[o.method].responses[code]
       IN (Has(response, "ref")
           /\ RefersInto(response.ref, ResponsesPrefix, ComponentResponses(spec)))
            => endpoint.responses[code] = generateId("response-", Tail(response.ref))

\* C16: an operation's $ref to a parameter, response or request body
\* defined under components is stored in the Endpoint as that entity's ID,
\* not as the raw reference string.
C16_ForwardReferences ==
  Succeeded =>
    \A i \in 1..Len(result.data.endpoints) :
       Forwarded(result.data.endpoints[i], ConvertedOps[i])

\* The parameter list extractOperationParameters walks for operation o.
AllParams(o) == Section(o.item, "parameters") \o Section(o.item[o.method], "parameters")

\* No reference of the operation to a component parameter is stored in the
\* endpoint as a schema ID.
NoSchemaForParameter(endpoint, o) ==
  \A j \in 1..Len(AllParams(o)) :
     (Has(AllParams(o)[j], "ref") /\ AllParams(o)[j].ref[1] = ParamsPrefix)
       => endpoint.parameters[j][1] # SchemaIdPrefix

\* C17: a reference to a component parameter (#/components/parameters/N)
\* never resolves to a schema ID, also when the document defines a schema
\* with the same name N.
C17_NamespaceSeparation ==
  Succeeded =>
    \A i \in 1..Len(result.data.endpoints) :
       NoSchemaForParameter(result.data.endpoints[i], ConvertedOps[i])

\* The spellings of a reference to the schema entity: the OpenAPI 3 and
\* the Swagger 2.0 reference, the bare name, the generated ID.
SpellingsOf(schema) ==
  {<<SchemasPrefix>> \o schema.name, <<DefsPrefix>> \o schema.name, schema.name,
   schema.id}

\* x is a schema entity with the given id.
IsEntity(x, id) == Has(x, "id") /\ x.id = id

\* The normalizer's resolveRef takes every spelling to the schema's ID.
NormalizerRoundTrip(schema) ==
  \A r \in SpellingsOf(schema) : resolveRef(r, RefsOf(Fields)) = schema.id

\* The view builder's resolveSchemaRef and resolveSchema take every
\* spelling to the schema entity.
ViewRoundTrip(schema, doc) ==
  \A r \in SpellingsOf(schema) :
     /\ resolvesSchemaRef(r, doc)
     /\ IsEntity(resolveSchemaRef(r, doc), schema.id)
     /\ IsEntity(resolveSchema([ref |-> r], doc), schema.id)

\* C18: for every schema name N defined in the document the spellings
\* #/components/schemas/N, #/definitions/N, bare N and the generated ID all
\* resolve to the schema entity whose id is generateId('schema', N), in the
\* normalizer's resolveRef and in the view builder's resolveSchema and
\* resolveSchemaRef.
C18_SpellingRoundTrip ==
  Succeeded =>
    \A i \in 1..Len(result.data.schemas) :
       /\ result.data.schemas[i].id = generateId("schema-", result.data.schemas[i].name)
       /\ NormalizerRoundTrip(result.data.schemas[i])
       /\ ViewRoundTrip(result.data.schemas[i], result.data)

(***************************************************************************)
(* The converter instance: per-call state                                  *)
(***************************************************************************)
\* C19: for any sequence of convert calls on one instance, the result for
\* a text equals the result a fresh instance gives for it, and when the
\* text parses the counters and reference maps the call leaves are those
\* it leaves in a fresh instance.
C19_PerCallState ==
  ConvertDone =>
    /\ result = convert(swaggerContent, NewInstance)
    /\ Parses => Fields = FieldsAfter(spec, NewInstance)

\* The second call on the instance has converted a document without a
\* title (its ID comes from the counter) that refers to a schema it does
\* not define.
C19_Witness ==
  /\ calls = 2
  /\ Succeeded
  /\ ~Has(spec.info, "title")
  /\ result.data.id = <<"api-", "1">>
  /\ Has(spec, "components")
  /\ idCounters["api-"] = 1

(***************************************************************************)
(* FieldViewConverter: the schema resolver                                 *)
(***************************************************************************)
\* Inline schema objects, and IDs that name no schema of any document.
InlineSchemas ==
  {[type |-> "string"], [type |-> "object", properties |-> AddressProps],
   [type |-> "array", items |-> [type |-> "string"]], EmptyMap}
UnknownIds == {<<SchemaIdPrefix, "missing">>, <<SchemaIdPrefix, "nothing">>}

\* An inline schema object is returned unchanged.
InlineUnchanged(doc) == \A x \in InlineSchemas : resolveSchema(x, doc) = x

\* A {$ref} marker holding a schema's ID and the bare ID resolve to the
\* schema with that ID.
KnownResolved(doc) ==
  \A i \in 1..Len(doc.schemas) :
     /\ IsEntity(resolveSchema([ref |-> doc.schemas[i].id], doc), doc.schemas[i].id)
     /\ IsEntity(resolveSchema(Str(doc.schemas[i].id), doc), doc.schemas[i].id)

\* C20 as claimed: an inline schema object is returned unchanged, a marker
\* or bare ID resolves to the schema with that ID, and an ID or marker
\* whose target is not in the collection resolves to null.
C20_UnknownIsNull ==
  normalized # NoDoc =>
    /\ InlineUnchanged(normalized)
    /\ KnownResolved(normalized)
    /\ \A u \in UnknownIds \ Ids(normalized.schemas) :
         /\ resolveSchema(Str(u), normalized) = Null
         /\ resolveSchema([ref |-> u], normalized) = Null

\* What the code does for a target that is not in the collection: a marker
\* comes back itself, a bare ID gives the schema {type: 'object'}; only
\* resolveSchemaRef answers null.
ResolverFallback ==
  normalized # NoDoc =>
    \A u \in UnknownIds \ Ids(normalized.schemas) :
       /\ resolveSchema(Str(u), normalized) = [type |-> "object"]
       /\ resolveSchema([ref |-> u], normalized) = [ref |-> u]
       /\ ~resolvesSchemaRef(u, normalized)

\* The endpoints of the projected document.
ProjectedEndpoints ==
  IF Returned THEN {normalized.endpoints[i] : i \in 1..Len(normalized.endpoints)} ELSE {}

\* The 2xx status codes in ascending order, and those of them under which
\* the endpoint has a response entity that carries a JSON schema.
SuccessCodes == <<"200", "201", "202">>
CarriesJson(endpoint, code) ==
  /\ Has(endpoint, "responses")
  /\ code \in DOMAIN endpoint.responses
  /\ Found(normalized.responses, endpoint.responses[code])
  /\ Has(Find(normalized.responses, endpoint.responses[code]), "content")
  /\ HasJsonSchema(Find(normalized.responses, endpoint.responses[code]).content)
JsonSuccesses(endpoint) ==
  {i \in 1..Len(SuccessCodes) : CarriesJson(endpoint, SuccessCodes[i])}
FirstJsonSuccess(endpoint) ==
  SuccessCodes[CHOOSE i \in JsonSuccesses(endpoint) : \A j \in JsonSuccesses(endpoint) : i <= j]
SchemaUnder(endpoint, code) ==
  resolveSchema(Find(normalized.responses, endpoint.responses[code]).content[JSON].schema,
                normalized)

\* C21: in the simplified view the response_fields of an endpoint that has
\* a 2xx response carrying a JSON schema (an object schema here) are the
\* projection of the schema of the lowest such response.
C21_FirstSuccessResponse ==
  \A endpoint \in ProjectedEndpoints :
    JsonSuccesses(endpoint) # {}
      => SameTree(simplified.endpoints[EndpointKey(endpoint)].response_fields,
                  extractFields(SchemaUnder(endpoint, FirstJsonSuccess(endpoint)).properties,
                                normalized, {}, {}, 1).out)

\* Where C21 does hold: the lowest 2xx response with a JSON schema is the
\* endpoint's 200 response, or its 201 response when it has no 200 response.
C21_Only200Or201 ==
  \A endpoint \in ProjectedEndpoints :
    /\ JsonSuccesses(endpoint) # {}
    /\ FirstJsonSuccess(endpoint) = SuccessCode(endpoint.responses)
    => SameTree(simplified.endpoints[EndpointKey(endpoint)].response_fields,
                extractFields(SchemaUnder(endpoint, FirstJsonSuccess(endpoint)).properties,
                              normalized, {}, {}, 1).out)

\* The projection of a media type's schema that is, or resolves to, an
\* object schema: a field tree, as extractFields builds it.
IsFieldTree(leaf) == Has(leaf, "t") /\ Has(leaf, "v")
ProjectedLeaf(leaf, schema) ==
  Has(resolveSchema(schema, normalized), "properties")
    => /\ IsFieldTree(leaf)
       /\ SameTree(leaf, extractFields(resolveSchema(schema, normalized).properties,
                                       normalized, {}, {}, 1).out)

\* C22: in the field view the schema stored under
\* responses[code].content_types[ct].schema and under
\* request_body.content_types[ct].schema is the projected field tree of
\* the original schema (for an object schema: field name to type name,
\* nested map or array prototype, references resolved), not the schema
\* object itself.
C22_ProjectedLeaves ==
  \A endpoint \in ViewedEndpoints :
    /\ \A code \in DOMAIN OperationOf(endpoint).responses :
         \A ct \in DOMAIN OperationOf(endpoint).responses[code].content_types :
           Has(OperationOf(endpoint).responses[code].content_types[ct], "schema")
             => ProjectedLeaf(
                  OperationOf(endpoint).responses[code].content_types[ct].schema,
                  Find(normalized.responses, endpoint.responses[code]).content[ct].schema)
    /\ Has(OperationOf(endpoint), "request_body")
         => \A ct \in DOMAIN OperationOf(endpoint).request_body.content_types :
              Has(OperationOf(endpoint).request_body.content_types[ct], "schema")
                => ProjectedLeaf(
                     OperationOf(endpoint).request_body.content_types[ct].schema,
                     Find(normalized.requestBodies, endpoint.requestBody).content[ct].schema)

\* What the field view does store at those leaves: the schema object that
\* resolveSchema returns.
FieldViewStoresSchemas ==
  \A endpoint \in ViewedEndpoints :
    \A code \in DOMAIN OperationOf(endpoint).responses :
      \A ct \in DOMAIN OperationOf(endpoint).responses[code].content_types :
        Has(OperationOf(endpoint).responses[code].content_types[ct], "schema")
          => OperationOf(endpoint).responses[code].content_types[ct].schema
               = resolveSchema(
                   Find(normalized.responses, endpoint.responses[code]).content[ct].schema,
                   normalized)

\* The named schemas of the converted raw document, whether a reference
\* names one of them, and the entity ID extractSchemas gives that schema.
ConvertedSchemas == IF Succeeded THEN getSchemaMap(spec) ELSE <<>>
NamesSchema(ref) ==
  \E i \in 1..Len(ConvertedSchemas) : ConvertedSchemas[i].name = lastSegment(ref)
EntityIdOf(ref) == generateId("schema-", lastSegment(ref))

\* stored is what schema extraction makes of the property or item schema
\* raw: the marker of the referenced schema's ID, or raw itself.
Rewritten(raw, stored) ==
  IF Has(raw, "ref") THEN NamesSchema(raw.ref) => stored = [ref |-> EntityIdOf(raw.ref)]
  ELSE stored = raw

\* The reference names an array schema whose items reference an object
\* schema, and the properties of that object schema's entity.
NamesArrayOfObjects(ref) ==
  \E i, j \in 1..Len(ConvertedSchemas) :
    /\ ConvertedSchemas[i].name = lastSegment(ref)
    /\ Has(ConvertedSchemas[i].schema, "type") /\ ConvertedSchemas[i].schema.type = "array"
    /\ Has(ConvertedSchemas[i].schema, "items") /\ Has(ConvertedSchemas[i].schema.items, "ref")
    /\ ConvertedSchemas[j].name = lastSegment(ConvertedSchemas[i].schema.items.ref)
    /\ Has(ConvertedSchemas[j].schema, "properties")
ItemEntityProperties(ref) ==
  LET i == CHOOSE i \in 1..Len(ConvertedSchemas) : ConvertedSchemas[i].name = lastSegment(ref)
  IN Find(normalized.schemas, EntityIdOf(ConvertedSchemas[i].schema.items.ref)).properties

\* C24, extraction: every reference directly in a named schema's
\* properties and in its items is stored as the marker of the referenced
\* schema's entity ID, inline property and item schemas are stored
\* unchanged.
MarkersStored ==
  \A i \in 1..Len(ConvertedSchemas) :
    /\ Has(ConvertedSchemas[i].schema, "properties")
         => \A k \in DOMAIN ConvertedSchemas[i].schema.properties :
              Rewritten(ConvertedSchemas[i].schema.properties[k],
                        normalized.schemas[i].properties[k])
    /\ Has(ConvertedSchemas[i].schema, "items")
         => Rewritten(ConvertedSchemas[i].schema.items, normalized.schemas[i].items)

\* C24, projection: when the schema of an endpoint's 200 response is a
\* named schema, each of its properties that references a named array
\* schema whose items reference an object schema projects to the
\* one-element array of that object schema's projected fields.
ArrayOfRefsProjected ==
  \A endpoint \in ProjectedEndpoints :
    (Succeeded /\ CarriesJson(endpoint, "200"))
    => \A i \in 1..Len(ConvertedSchemas) :
         (/\ SchemaUnder(endpoint, "200") = normalized.schemas[i]
          /\ Has(ConvertedSchemas[i].schema, "properties"))
         => \A k \in DOMAIN ConvertedSchemas[i].schema.properties :
              (/\ Has(ConvertedSchemas[i].schema.properties[k], "ref")
               /\ NamesArrayOfObjects(ConvertedSchemas[i].schema.properties[k].ref))
              => LET fields == simplified.endpoints[EndpointKey(endpoint)].response_fields
                 IN /\ HasField(fields, k)
                    /\ SameTree(fields.v[k],
                                Arr(extractFields(
                                      ItemEntityProperties(
                                        ConvertedSchemas[i].schema.properties[k].ref),
                                      normalized, {}, {}, 1).out))

C24_RefMarkers == MarkersStored /\ ArrayOfRefsProjected

\* Where the extraction half of C24 holds: the references in properties.
PropertyMarkersStored ==
  \A i \in 1..Len(ConvertedSchemas) :
    Has(ConvertedSchemas[i].schema, "properties")
      => \A k \in DOMAIN ConvertedSchemas[i].schema.properties :
           Rewritten(ConvertedSchemas[i].schema.properties[k],
                     normalized.schemas[i].properties[k])

RootProperties ==
  IF /\ Returned /\ HasRoot /\ IsObject(Root) /\ Has(Root, "properties")
     /\ CarriesJson(normalized.endpoints[1], "200")
     /\ normalized.endpoints[1].responses["200"] = normalized.responses[1].id
  THEN DOMAIN Root.properties ELSE {}
ProjectedRoot(k) ==
  simplified.endpoints[EndpointKey(normalized.endpoints[1])].response_fields.v[k]

\* The reference names no schema of the collection: none has it as its ID
\* or carries the name it ends in.
Unresolvable(ref) == ~HasTarget(ref, normalized)

\* C26: the view builder returns for every document; a property whose
\* reference names no schema of the collection projects to "any", an
\* array property whose items reference is unresolvable, and a property
\* that references a named array schema whose items are, to ["any"]; the
\* sibling properties are projected as usual.
C26_UnresolvedIsAny ==
  /\ SimplifiedDone => simplified # ThrownView
  /\ \A k \in RootProperties :
       LET p == Root.properties[k] IN
       /\ HasField(ResponseFieldsOf(EndpointKey(normalized.endpoints[1])), k)
       /\ (Has(p, "ref") /\ Unresolvable(p.ref))
            => SameTree(ProjectedRoot(k), Prim("any"))
       /\ (Has(p, "type") /\ p.type = "array" /\ Has(p, "items") /\ Has(p.items, "ref")
             /\ Unresolvable(p.items.ref))
            => SameTree(ProjectedRoot(k), Arr(Prim("any")))
       /\ (/\ Has(p, "ref") /\ HasTarget(p.ref, normalized)
           /\ Has(TargetOf(p.ref, normalized), "items")
           /\ Has(TargetOf(p.ref, normalized).items, "ref")
           /\ Unresolvable(TargetOf(p.ref, normalized).items.ref))
            => SameTree(ProjectedRoot(k), Arr(Prim("any")))
       /\ (~Has(p, "ref") /\ Has(p, "type") /\ p.type \in {"string", "integer"})
            => SameTree(ProjectedRoot(k), Prim(p.type))
       /\ (Has(p, "ref") /\ p.ref = SchemaId("Address")
             /\ Found(normalized.schemas, SchemaId("Address"))
             /\ Find(normalized.schemas, SchemaId("Address")).properties = AddressProps)
            => SameTree(ProjectedRoot(k), AddressTree)

\* C26 witness: a projected document with unresolvable references in a
\* property, in the items of an array property and in the items of a
\* named array schema, whose resolvable sibling is expanded.
C26_Witness ==
  /\ {"gone", "list", "bag", "home"} \subseteq RootProperties
  /\ Unresolvable(Root.properties.gone.ref)
  /\ Unresolvable(Root.properties.list.items.ref)
  /\ Has(TargetOf(Root.properties.bag.ref, normalized).items, "ref")
  /\ Unresolvable(TargetOf(Root.properties.bag.ref, normalized).items.ref)
  /\ SameTree(ProjectedRoot("gone"), Prim("any"))
  /\ SameTree(ProjectedRoot("list"), Arr(Prim("any")))
  /\ SameTree(ProjectedRoot("bag"), Arr(Prim("any")))
  /\ SameTree(ProjectedRoot("home"), AddressTree)

\* C27: an inline array property of N dimensions (N >= 1) over the
\* primitive type T projects to T in N one-element arrays, over an object
\* type to the projected field map in N one-element arrays; an array
\* without items projects to ["any"].
DimensionsKept(n) ==
  /\ \A t \in {"string", "number"} :
       ("f" \in RootProperties /\ Root.properties.f = ArrayOf(n, [type |-> t]))
         => SameTree(ProjectedRoot("f"), ProtoOf(n, Prim(t)))
  /\ ("f" \in RootProperties
        /\ Root.properties.f
             = ArrayOf(n, [type |-> "object", properties |-> [g |-> [type |-> "string"]]]))
       => SameTree(ProjectedRoot("f"), ProtoOf(n, Map([g |-> Prim("string")])))
C27_EveryDimension ==
  /\ \A n \in 1..MaxArrayDepth : DimensionsKept(n)
  /\ ("f" \in RootProperties /\ Root.properties.f = [type |-> "array"])
       => SameTree(ProjectedRoot("f"), Arr(Prim("any")))

\* Where C27 holds: one and two dimensions over any item type, three over
\* primitives, and the array without items.
UpToThreeDimensions ==
  /\ DimensionsKept(1) /\ DimensionsKept(2)
  /\ \A t \in {"string", "number"} :
       ("f" \in RootProperties /\ Root.properties.f = ArrayOf(3, [type |-> t]))
         => SameTree(ProjectedRoot("f"), ProtoOf(3, Prim(t)))
  /\ ("f" \in RootProperties /\ Root.properties.f = [type |-> "array"])
       => SameTree(ProjectedRoot("f"), Arr(Prim("any")))

\* The request body entity whose id is the endpoint's requestBody, if the
\* document has one, and the object schema it carries for JSON.
OwnBody(endpoint) ==
  /\ Has(endpoint, "requestBody")
  /\ Found(normalized.requestBodies, endpoint.requestBody)
OwnBodySchema(endpoint) ==
  resolveSchema(Find(normalized.requestBodies, endpoint.requestBody).content[JSON].schema,
                normalized)
OwnBodyFields(endpoint) ==
  IF /\ OwnBody(endpoint)
     /\ HasJsonSchema(Find(normalized.requestBodies, endpoint.requestBody).content)
     /\ Has(OwnBodySchema(endpoint), "properties")
  THEN extractFields(OwnBodySchema(endpoint).properties, normalized, {}, {}, 1).out
  ELSE Map(EmptyMap)

\* C28: the request_fields of an endpoint are the projection of the request
\* body whose id is the endpoint's requestBody and of no other: an endpoint
\* that has no such body in the document has empty request_fields.
C28_OwnRequestBody ==
  \A endpoint \in ProjectedEndpoints :
    SameTree(simplified.endpoints[EndpointKey(endpoint)].request_fields,
             OwnBodyFields(endpoint))

\* Where C28 holds: every endpoint that names a request body names one of
\* the document.
C28_WhenBodyExists ==
  (\A endpoint \in ProjectedEndpoints :
     Has(endpoint, "requestBody") => OwnBody(endpoint))
  => C28_OwnRequestBody

(***************************************************************************)
(* JSONToSwaggerConverter                                                  *)
(***************************************************************************)
\* The document in swaggerContent was converted and the result converted
\* back by the named call, which returned a text.
ConvertedBack(call) ==
  /\ Succeeded
  /\ openapi # NoOutput
  /\ openapi.call = call
  /\ ~IsError(openapi.text)

\* The document read back from the text returned.
BackSpec == parseSwagger(openapi.text)

\* info[k] as a list of at most one value, the keys of paths and the keys
\* of components.schemas of a document.
InfoMember(s, k) == IF Has(s, "info") /\ Has(s.info, k) THEN <<s.info[k]>> ELSE <<>>
PathKeys(s) == [i \in 1..Len(Section(s, "paths")) |-> s.paths[i].path]
SchemaNames(s) ==
  [i \in 1..Len(Section(Section(s, "components"), "schemas")) |->
     s.components.schemas[i].name]

\* C23: converting an OpenAPI document with convert and the result back with
\* convertToOpenAPI preserves info.title, info.version, the list of path
\* keys and the list of schema names under components.schemas.
C23_RoundTrip ==
  ConvertedBack("convertToOpenAPI")
    => /\ InfoMember(BackSpec, "title") = InfoMember(spec, "title")
       /\ InfoMember(BackSpec, "version") = InfoMember(spec, "version")
       /\ PathKeys(BackSpec) = PathKeys(spec)
       /\ SchemaNames(BackSpec) = SchemaNames(spec)

\* The path item has an operation under a method extractEndpoints visits,
\* and the operation has an operationId or a response.
HasEmittedOperation(item) ==
  \E m \in DOMAIN item :
    /\ \E i \in 1..Len(HttpMethods) : HttpMethods[i] = m
    /\ Has(item[m], "operationId") \/ Section(item[m], "responses") # <<>>

\* Where C23 holds: every path item of the document has such an operation.
C23_WhenOperationsEmitted ==
  (\A i \in 1..Len(Section(spec, "paths")) : HasEmittedOperation(spec.paths[i].item))
    => C23_RoundTrip

\* What is preserved for every document: the title, the version and the
\* schema names.
C23_InfoAndSchemas ==
  ConvertedBack("convertToOpenAPI")
    => /\ InfoMember(BackSpec, "title") = InfoMember(spec, "title")
       /\ InfoMember(BackSpec, "version") = InfoMember(spec, "version")
       /\ SchemaNames(BackSpec) = SchemaNames(spec)

\* What a new instance returns for the call recorded in openapi.
FreshOutput ==
  IF openapi.call = "convertToOpenAPI"
  THEN convertToOpenAPI(normalized, openapi.format, NewMaps)
  ELSE convertToSwagger2(normalized, openapi.format, NewMaps)

\* C29: what convertToOpenAPI and convertToSwagger2 return depends only on
\* the NormalizedAPI passed: after any sequence of calls on one instance
\* the result is the one a new instance gives, so nothing of an API
\* converted earlier resolves a reference of a later one.
C29_OnlyThisApi == openapi # NoOutput => openapi.text = FreshOutput

\* Where C29 holds: every entity the Maps hold belongs to the API passed.
MapsHoldOnly(api) ==
  /\ DOMAIN maps.schemaMap \subseteq Ids(api.schemas)
  /\ DOMAIN maps.parameterMap \subseteq Ids(api.parameters)
  /\ DOMAIN maps.responseMap \subseteq Ids(api.responses)
  /\ DOMAIN maps.requestBodyMap \subseteq Ids(api.requestBodies)
C29_FirstApi ==
  (openapi # NoOutput /\ MapsHoldOnly(normalized)) => openapi.text = FreshOutput

(***************************************************************************)
(* Backend                                                                 *)
(***************************************************************************)
\* The requests that have returned successfully, and ListAPIDefinitions().
Successful(ops) ==
  {i \in 1..Len(requests) : requests[i].pc = "saved" /\ requests[i].op \in ops}
ListAPIDefinitions == {apis[id] : id \in DOMAIN apis}

\* Every successful request of the given operations has added a
\* definition: the repository lists as many definitions as there were
\* such requests, and the definition each of them saved is retrievable by
\* its ID with the content and CreatedAt it was saved with.
AllKept(ops) ==
  /\ Cardinality(ListAPIDefinitions) = Cardinality(Successful(ops))
  /\ \A i \in Successful(ops) :
       /\ requests[i].api.ID \in DOMAIN apis
       /\ apis[requests[i].api.ID] = requests[i].api

\* C30: every successful ImportSwagger adds a stored definition and
\* replaces none: after n successful imports into an empty repository, in
\* any interleaving, ListAPIDefinitions returns n definitions and each of
\* them is retrievable by its ID with its original content and CreatedAt.
C30_ImportsAdd ==
  (\A i \in 1..Len(requests) : requests[i].op = "ImportSwagger")
    => AllKept({"ImportSwagger"})

\* Where the statement holds: definitions created without an ID, which get
\* one from uuid.New().
C30_GeneratedIdsAdd ==
  (\A i \in 1..Len(requests) :
     requests[i].op = "CreateAPIDefinition" /\ requests[i].given = "")
    => AllKept({"CreateAPIDefinition"})
====
